---- MODULE Spec2Model ----
(***************************************************************************)
(* WhirledTalk server: the WebSocket connection handler, the session       *)
(* registry (activeSessions / usernameOwnership), the per-connection rate  *)
(* gate, room fanout and the in-memory message store.                      *)
(*                                                                         *)
(* JavaScript `undefined` is modelled by the falsy value of the field's    *)
(* type: "" for strings, 0 for numbers, <<>> for message content.  The     *)
(* handler's tests on such fields are truthiness tests, so it does not     *)
(* tell the two apart; a frame's room "" stands for an absent room, which  *)
(* the schema replaces by its default.  Time is Date.now() in milliseconds.*)
(***************************************************************************)
EXTENDS Naturals, Integers, Sequences, FiniteSets, TLC

VARIABLES
  now,               \* Date.now()
  clients,           \* the Set<ExtendedWebSocket> of routes.ts
  conn,              \* per connection: the ExtendedWebSocket fields
  activeSessions,    \* Map sessionId -> UserSession
  usernameOwnership, \* Map "room:username" -> sessionId, as its set of entries
  messages,          \* MemStorage.messages, in insertion order
  currentId,         \* MemStorage.currentId
  pending,           \* handlers suspended at `await storage.addMessage`
  lastRelayedVersion,\* Map hnId -> version, as its entries in insertion order
  lastIngested,      \* history: the version each tracked item was last ingested with
  HOCKER_PUSH_TOKEN, \* process.env.HOCKER_PUSH_TOKEN || "", read once at start
  hook,              \* one browser's useWebSocket hook: [socket, isConnected,
                     \* timer, delays]; delays is the history of the reconnect
                     \* delays set since the socket was last open
  sent,              \* the frames the last step put on the wire: [to, from, msg]
  ev                 \* the last step: [kind, conn, type, verdict]; the verdict
                     \* of a close is "failed" when a transport error came first

vars == <<now, clients, conn, activeSessions, usernameOwnership,
          messages, currentId, pending, lastRelayedVersion, lastIngested,
          HOCKER_PUSH_TOKEN, hook, sent, ev>>

serverVars == <<now, clients, conn, activeSessions, usernameOwnership,
                messages, currentId, pending, lastRelayedVersion, lastIngested,
                HOCKER_PUSH_TOKEN, sent>>

----------------------------------------------------------------------------
(* Program constants *)

SESSION_TIMEOUT == 1800000
windowMs == 60000
maxMessages == 50
minInterval == 50
LedgerCap == 5000
HOCKER_RELAY_ROOM == "global"
RetentionMinutes == 30   \* this.deleteOldMessages(30)
HistoryLimit == 100      \* storage.getRecentMessages(room, 100)

(* Bounds of the model *)

MaxSlots == 1        \* minInterval-sized time steps taken inside one epoch
MaxEpochs == 1       \* SESSION_TIMEOUT-sized time steps
MaxStored == 1       \* messages the store may hold
MaxFrames == 2       \* frames a connection's window counts (Spec)
MaxWindowFrames == 1 \* frames a connection's window counts (SpecExpiry)
MaxOnes == 1         \* one-millisecond time steps (SpecRate)
MaxShorts == 1       \* (minInterval - 1)-sized time steps (SpecRate)
MaxWindows == 1      \* windowMs-sized time steps (SpecRate)
MaxOverflow == 1     \* frames counted beyond maxMessages (SpecRate)
MaxContentFrames == 2 \* frames a connection's window counts (SpecContent)
MaxKept == 3         \* messages the store may hold (SpecStore)
MaxStoreFrames == 2  \* frames a connection's window counts (SpecStore)
MaxRelayed == 2      \* messages the store may hold (SpecLedger)

Conns == {"c1", "c2"}
Usernames == {"alice"}
Rooms == {"global", "demo"}
SessionIds == {"s1", "s2"}
Fingerprints == {"f1", "f2"}
GeneratedIds == {"session_g"}
TrackedIds == {1, 2}
MessageTypes == {"keystroke", "newMessage", "join", "leave", "nameError"}

----------------------------------------------------------------------------
(* Map helpers: a JS Map as its set of <<key, value>> entries *)

MapHas(m, k) == \E e \in m : e[1] = k

MapGet(m, k) == IF MapHas(m, k) THEN (CHOOSE e \in m : e[1] = k)[2] ELSE ""

MapSet(m, k, v) == {e \in m : e[1] # k} \cup {<<k, v>>}

MapDelete(m, k) == {e \in m : e[1] # k}

OwnershipKey(room, username) == room \o ":" \o username

\* readyState OPEN: "open", or "stalled" when the peer no longer takes what
\* is sent although no error has been reported yet
ReadyOpen == {"open", "stalled"}

FreshConn ==
  [state |-> "none", username |-> "", room |-> "", sessionId |-> "",
   browserFingerprint |-> "", lastMessageTime |-> 0, messageCount |-> 0,
   lastResetTime |-> 0]

NoEvent == [kind |-> "init", conn |-> "", type |-> "", verdict |-> ""]

----------------------------------------------------------------------------
(* checkRateLimit: [pass, ws] for connection record w at time t *)

\* mutant: the interval test one millisecond short
CheckRateLimit_OffByOne(w, t) ==
  IF w.lastMessageTime # 0 /\ t - w.lastMessageTime < minInterval - 1
  THEN [pass |-> FALSE, ws |-> w]
  ELSE LET w1 == IF w.lastResetTime = 0 \/ t - w.lastResetTime > windowMs
                 THEN [w EXCEPT !.messageCount = 0, !.lastResetTime = t]
                 ELSE w
           w2 == [w1 EXCEPT !.messageCount = @ + 1]
       IN  [pass |-> w2.messageCount <= maxMessages, ws |-> w2]

\* mutant: no minimum interval
CheckRateLimit_NoInterval(w, t) ==
  LET w1 == IF w.lastResetTime = 0 \/ t - w.lastResetTime > windowMs
            THEN [w EXCEPT !.messageCount = 0, !.lastResetTime = t]
            ELSE w
      w2 == [w1 EXCEPT !.messageCount = @ + 1]
  IN  [pass |-> w2.messageCount <= maxMessages, ws |-> w2]

\* mutant: the cap tested on the count before the frame is counted
CheckRateLimit_CapBeforeCount(w, t) ==
  IF w.lastMessageTime # 0 /\ t - w.lastMessageTime < minInterval
  THEN [pass |-> FALSE, ws |-> w]
  ELSE LET w1 == IF w.lastResetTime = 0 \/ t - w.lastResetTime > windowMs
                 THEN [w EXCEPT !.messageCount = 0, !.lastResetTime = t]
                 ELSE w
           w2 == [w1 EXCEPT !.messageCount = @ + 1]
       IN  [pass |-> w1.messageCount <= maxMessages, ws |-> w2]

\* the count taken before the look at the minimum interval
CheckRateLimit_CountsFirst(w, t) ==
  LET w1 == IF w.lastResetTime = 0 \/ t - w.lastResetTime > windowMs
            THEN [w EXCEPT !.messageCount = 0, !.lastResetTime = t]
            ELSE w
      w2 == [w1 EXCEPT !.messageCount = @ + 1]
  IN  IF w.lastMessageTime # 0 /\ t - w.lastMessageTime < minInterval
      THEN [pass |-> FALSE, ws |-> w2]
      ELSE [pass |-> w2.messageCount <= maxMessages, ws |-> w2]

CheckRateLimit(w, t) ==
  IF w.lastMessageTime # 0 /\ t - w.lastMessageTime < minInterval
  THEN [pass |-> FALSE, ws |-> w]
  ELSE LET w1 == IF w.lastResetTime = 0 \/ t - w.lastResetTime > windowMs
                 THEN [w EXCEPT !.messageCount = 0, !.lastResetTime = t]
                 ELSE w
           w2 == [w1 EXCEPT !.messageCount = @ + 1]
       IN  [pass |-> w2.messageCount <= maxMessages, ws |-> w2]

(* validateNameOwnership: [allowed, ownership] (the stale entry it may delete) *)

\* mutant: no handoff to a session of the same fingerprint
ValidateNameOwnership_NoHandoff(sessions, ownership, username, room, sessionId, browserFingerprint) ==
  LET ownershipKey == OwnershipKey(room, username)
      currentOwner == MapGet(ownership, ownershipKey)
  IN  IF currentOwner = ""
      THEN [allowed |-> TRUE, ownership |-> ownership]
      ELSE IF currentOwner \notin DOMAIN sessions
      THEN [allowed |-> TRUE, ownership |-> MapDelete(ownership, ownershipKey)]
      ELSE IF currentOwner = sessionId
      THEN [allowed |-> TRUE, ownership |-> ownership]
      ELSE [allowed |-> FALSE, ownership |-> ownership]

\* the fingerprint looked at only for an owner without connections
ValidateNameOwnership_IdleHandoff(sessions, ownership, username, room, sessionId, browserFingerprint) ==
  LET ownershipKey == OwnershipKey(room, username)
      currentOwner == MapGet(ownership, ownershipKey)
  IN  IF currentOwner = ""
      THEN [allowed |-> TRUE, ownership |-> ownership]
      ELSE IF currentOwner \notin DOMAIN sessions
      THEN [allowed |-> TRUE, ownership |-> MapDelete(ownership, ownershipKey)]
      ELSE IF currentOwner = sessionId
      THEN [allowed |-> TRUE, ownership |-> ownership]
      ELSE [allowed |-> sessions[currentOwner].connectionCount <= 1,
            ownership |-> ownership]

ValidateNameOwnership(sessions, ownership, username, room, sessionId, browserFingerprint) ==
  LET ownershipKey == OwnershipKey(room, username)
      currentOwner == MapGet(ownership, ownershipKey)
  IN  IF currentOwner = ""
      THEN [allowed |-> TRUE, ownership |-> ownership]
      ELSE IF currentOwner \notin DOMAIN sessions
      THEN [allowed |-> TRUE, ownership |-> MapDelete(ownership, ownershipKey)]
      ELSE IF currentOwner = sessionId
      THEN [allowed |-> TRUE, ownership |-> ownership]
      ELSE IF sessions[currentOwner].browserFingerprint = browserFingerprint
      THEN [allowed |-> TRUE, ownership |-> ownership]
      ELSE [allowed |-> FALSE, ownership |-> ownership]

(* claimUsername: [sessions, ownership] *)

\* mutant: the new owner is recorded beside the old one
ClaimUsername_KeepsOld(sessions, ownership, username, room, sessionId, browserFingerprint, t) ==
  LET count == IF sessionId \in DOMAIN sessions
               THEN sessions[sessionId].connectionCount ELSE 0
      session == [username |-> username, room |-> room,
                  browserFingerprint |-> browserFingerprint,
                  lastSeen |-> t, connectionCount |-> count + 1]
  IN  [sessions |-> [s \in DOMAIN sessions \cup {sessionId} |->
                       IF s = sessionId THEN session ELSE sessions[s]],
       ownership |-> ownership \cup {<<OwnershipKey(room, username), sessionId>>}]

ClaimUsername(sessions, ownership, username, room, sessionId, browserFingerprint, t) ==
  LET count == IF sessionId \in DOMAIN sessions
               THEN sessions[sessionId].connectionCount ELSE 0
      session == [username |-> username, room |-> room,
                  browserFingerprint |-> browserFingerprint,
                  lastSeen |-> t, connectionCount |-> count + 1]
  IN  [sessions |-> [s \in DOMAIN sessions \cup {sessionId} |->
                       IF s = sessionId THEN session ELSE sessions[s]],
       ownership |-> MapSet(ownership, OwnershipKey(room, username), sessionId)]

(* broadcastToRoom: the frames put on the wire, one per receiving connection *)

\* mutant: the sender's other connections are left out as well
BroadcastToRoom_OtherSessions(cl, cs, room, msg, sender) ==
  {[to |-> k, from |-> sender, msg |-> msg] :
     k \in {x \in cl : /\ cs[x].room = room /\ cs[x].state = "open" /\ x # sender
                       /\ (sender \in DOMAIN cs => cs[x].sessionId # cs[sender].sessionId)}}

\* the loop ending at the first socket whose send fails; the set is gone
\* through in the order c1, c2
BroadcastToRoom_StopsAtFailure(cl, cs, room, msg, sender) ==
  {[to |-> k, from |-> sender, msg |-> msg] :
     k \in {x \in cl : /\ cs[x].room = room /\ cs[x].state \in ReadyOpen /\ x # sender
                       /\ ~(x = "c2" /\ "c1" \in cl /\ cs["c1"].room = room
                                     /\ cs["c1"].state = "stalled"
                                     /\ "c1" # sender)}}

BroadcastToRoom(cl, cs, room, msg, sender) ==
  {[to |-> k, from |-> sender, msg |-> msg] :
     k \in {x \in cl : cs[x].room = room /\ cs[x].state \in ReadyOpen /\ x # sender}}

----------------------------------------------------------------------------
(* Content heuristics of the message handler; content is a sequence of     *)
(* one-character strings. *)

AlphaNumeric ==
  {"a","b","c","d","e","f","g","h","i","j","k","l","m","n","o","p","q","r",
   "s","t","u","v","w","x","y","z","A","B","C","D","E","F","G","H","I","J",
   "K","L","M","N","O","P","Q","R","S","T","U","V","W","X","Y","Z",
   "0","1","2","3","4","5","6","7","8","9"}

Whitespace == {" ", "\t", "\n", "\r"}

\* /(.)\1{10,}/ : some character followed by ten or more copies of itself
RepeatedChars(content) ==
  \E i \in 1..Len(content) :
     /\ i + 10 <= Len(content)
     /\ content[i] # "\n" /\ content[i] # "\r"
     /\ \A j \in i..(i + 10) : content[j] = content[i]

\* (content.match(/[^a-zA-Z0-9\s]/g) || []).length
SpecialCharCount(content) ==
  Cardinality({i \in 1..Len(content) : content[i] \notin AlphaNumeric \cup Whitespace})

ContentRejected(content) ==
  /\ content # <<>>
  /\ \/ Len(content) > 200
     \/ RepeatedChars(content)
     \/ 2 * SpecialCharCount(content) > Len(content)

----------------------------------------------------------------------------
(* wsMessageSchema.parse: the type must be one of the enum's; an absent    *)
(* room takes the default "global" *)

\* mutant: any type is taken
SchemaAccepts_AnyType(f) == TRUE

SchemaAccepts(f) == f.type \in MessageTypes

Validated(f) == [f EXCEPT !.room = IF f.room = "" THEN "global" ELSE f.room]

(* MemStorage.addMessage: [messages, currentId] *)

\* mutant: the id taken from the number of stored messages
AddMessage_IdFromSize(store, id, m, t) ==
  [messages |-> Append(store, [id |-> Len(store) + 1, username |-> m.username,
                               content |-> m.content, room |-> m.room,
                               timestamp |-> t]),
   currentId |-> Len(store) + 2]

\* the write still on its way when the caller goes on
AddMessage_Deferred(store, id, m, t) ==
  [messages |-> store, currentId |-> id + 1]

AddMessage(store, id, m, t) ==
  [messages |-> Append(store, [id |-> id, username |-> m.username,
                               content |-> m.content, room |-> m.room,
                               timestamp |-> t]),
   currentId |-> id + 1]

(* The frame a handler broadcasts for validated message m *)
OutMsg(type, m) ==
  [type |-> type, username |-> m.username, room |-> m.room,
   content |-> IF type \in {"keystroke", "newMessage"} THEN m.content ELSE <<>>]

NameError(m) ==
  [type |-> "nameError", username |-> m.username, room |-> m.room, content |-> <<>>]

(* The reply to a frame that failed validation: ws.send on the offending socket *)

\* mutant: the error goes to the frame's room as well
DeniedReply_ToRoom(c, m) ==
  {[to |-> k, from |-> c, msg |-> NameError(m)] :
     k \in {c} \cup {x \in clients : conn[x].room = m.room}}

DeniedReply(c, m) == {[to |-> c, from |-> c, msg |-> NameError(m)]}

(* Lines 296-349 of the handler: identity validation and claim.            *)
(* [denied, sessions, ownership, ws] for connection record w. *)

\* mutant: a join claims the name before its validation is looked at
IdentityStage_ClaimsFirst(sessions, ownership, w, m, generated, t) ==
  IF m.username = ""
  THEN [denied |-> FALSE, sessions |-> sessions, ownership |-> ownership, ws |-> w]
  ELSE IF m.type = "join"
  THEN LET sessionId == IF m.sessionId # "" THEN m.sessionId ELSE generated
           browserFingerprint == IF m.browserFingerprint # ""
                                 THEN m.browserFingerprint ELSE "unknown"
           v == ValidateNameOwnership(sessions, ownership, m.username, m.room,
                                      sessionId, browserFingerprint)
           cl == ClaimUsername(sessions, v.ownership, m.username, m.room,
                               sessionId, browserFingerprint, t)
       IN  [denied |-> ~v.allowed, sessions |-> cl.sessions,
            ownership |-> cl.ownership,
            ws |-> [w EXCEPT !.sessionId = sessionId,
                             !.browserFingerprint = browserFingerprint]]
  ELSE IF w.sessionId # "" /\ w.browserFingerprint # ""
  THEN LET v == ValidateNameOwnership(sessions, ownership, m.username, m.room,
                                      w.sessionId, w.browserFingerprint)
       IN  [denied |-> ~v.allowed, sessions |-> sessions,
            ownership |-> v.ownership, ws |-> w]
  ELSE [denied |-> FALSE, sessions |-> sessions, ownership |-> ownership, ws |-> w]

\* a join without fingerprint validated under a fingerprint of its own
IdentityStage_OwnPlaceholder(sessions, ownership, w, m, generated, t) ==
  IF m.username = ""
  THEN [denied |-> FALSE, sessions |-> sessions, ownership |-> ownership, ws |-> w]
  ELSE IF m.type = "join"
  THEN LET sessionId == IF m.sessionId # "" THEN m.sessionId ELSE generated
           browserFingerprint == IF m.browserFingerprint # ""
                                 THEN m.browserFingerprint ELSE sessionId
           v == ValidateNameOwnership(sessions, ownership, m.username, m.room,
                                      sessionId, browserFingerprint)
           cl == ClaimUsername(sessions, v.ownership, m.username, m.room,
                               sessionId, browserFingerprint, t)
       IN  IF ~v.allowed
           THEN [denied |-> TRUE, sessions |-> sessions,
                 ownership |-> v.ownership, ws |-> w]
           ELSE [denied |-> FALSE, sessions |-> cl.sessions,
                 ownership |-> cl.ownership,
                 ws |-> [w EXCEPT !.sessionId = sessionId,
                                  !.browserFingerprint = browserFingerprint]]
  ELSE IF w.sessionId # "" /\ w.browserFingerprint # ""
  THEN LET v == ValidateNameOwnership(sessions, ownership, m.username, m.room,
                                      w.sessionId, w.browserFingerprint)
       IN  [denied |-> ~v.allowed, sessions |-> sessions,
            ownership |-> v.ownership, ws |-> w]
  ELSE [denied |-> FALSE, sessions |-> sessions, ownership |-> ownership, ws |-> w]

IdentityStage(sessions, ownership, w, m, generated, t) ==
  IF m.username = ""
  THEN [denied |-> FALSE, sessions |-> sessions, ownership |-> ownership, ws |-> w]
  ELSE IF m.type = "join"
  THEN LET sessionId == IF m.sessionId # "" THEN m.sessionId ELSE generated
           browserFingerprint == IF m.browserFingerprint # ""
                                 THEN m.browserFingerprint ELSE "unknown"
           v == ValidateNameOwnership(sessions, ownership, m.username, m.room,
                                      sessionId, browserFingerprint)
           cl == ClaimUsername(sessions, v.ownership, m.username, m.room,
                               sessionId, browserFingerprint, t)
       IN  IF ~v.allowed
           THEN [denied |-> TRUE, sessions |-> sessions,
                 ownership |-> v.ownership, ws |-> w]
           ELSE [denied |-> FALSE, sessions |-> cl.sessions,
                 ownership |-> cl.ownership,
                 ws |-> [w EXCEPT !.sessionId = sessionId,
                                  !.browserFingerprint = browserFingerprint]]
  ELSE IF w.sessionId # "" /\ w.browserFingerprint # ""
  THEN LET v == ValidateNameOwnership(sessions, ownership, m.username, m.room,
                                      w.sessionId, w.browserFingerprint)
       IN  [denied |-> ~v.allowed, sessions |-> sessions,
            ownership |-> v.ownership, ws |-> w]
  ELSE [denied |-> FALSE, sessions |-> sessions, ownership |-> ownership, ws |-> w]

(* Lines 374-383: lastSeen of the connection's session, then the tags *)

TouchSession(sessions, sessionId, t) ==
  IF sessionId # "" /\ sessionId \in DOMAIN sessions
  THEN [sessions EXCEPT ![sessionId].lastSeen = t]
  ELSE sessions

TagConnection(w, m, t) ==
  [w EXCEPT !.username = m.username, !.room = m.room, !.lastMessageTime = t]

\* the test for a yPosition left out
Persists_ContentOnly(m) == m.type = "newMessage" /\ m.content # <<>>

(* newMessage persists only with content and a yPosition *)
Persists(m) == m.type = "newMessage" /\ m.content # <<>> /\ m.hasY

(* The type switch (lines 385-448): the types that are broadcast *)

\* mutant: a default case that relays any other type
Broadcasts_Default(type) == TRUE

Broadcasts(type) == type \in {"keystroke", "newMessage", "join", "leave"}

----------------------------------------------------------------------------
(* ws.on('message'): one inbound frame f on connection c.  `generated` is  *)
(* the session id the server makes up when a join carries none.  A handler *)
(* suspended at its await lets only frames of the same socket's chunk in.  *)

HandleMessage(c, f, generated) ==
  /\ conn[c].state = "open"
  /\ \A i \in 1..Len(pending) : pending[i].conn = c
  /\ LET rl == CheckRateLimit(conn[c], now)
         m == Validated(f)
         id == IdentityStage(activeSessions, usernameOwnership, rl.ws, m, generated, now)
         w == TagConnection(id.ws, m, now)
         cs == [conn EXCEPT ![c] = w]
         st == AddMessage(messages, currentId, m, now)
     IN  IF ~rl.pass
         THEN /\ conn' = [conn EXCEPT ![c] = rl.ws]
              /\ sent' = {}
              /\ ev' = [kind |-> "frame", conn |-> c, type |-> "", verdict |-> "rate"]
              /\ UNCHANGED <<activeSessions, usernameOwnership, messages,
                             currentId, pending>>
         ELSE IF ~SchemaAccepts(f)
         THEN /\ conn' = [conn EXCEPT ![c] = rl.ws]
              /\ sent' = {}
              /\ ev' = [kind |-> "frame", conn |-> c, type |-> "", verdict |-> "parse"]
              /\ UNCHANGED <<activeSessions, usernameOwnership, messages,
                             currentId, pending>>
         ELSE IF id.denied
         THEN /\ conn' = [conn EXCEPT ![c] = id.ws]
              /\ activeSessions' = id.sessions
              /\ usernameOwnership' = id.ownership
              /\ sent' = DeniedReply(c, m)
              /\ ev' = [kind |-> "frame", conn |-> c, type |-> m.type,
                      verdict |-> "denied"]
              /\ UNCHANGED <<messages, currentId, pending>>
         ELSE IF ContentRejected(m.content)
         THEN /\ conn' = [conn EXCEPT ![c] = id.ws]
              /\ activeSessions' = id.sessions
              /\ usernameOwnership' = id.ownership
              /\ sent' = {}
              /\ ev' = [kind |-> "frame", conn |-> c, type |-> m.type,
                      verdict |-> "content"]
              /\ UNCHANGED <<messages, currentId, pending>>
         ELSE /\ conn' = cs
              /\ activeSessions' = TouchSession(id.sessions, id.ws.sessionId, now)
              /\ usernameOwnership' = id.ownership
              /\ ev' = [kind |-> "frame", conn |-> c, type |-> m.type,
                      verdict |-> "ok"]
              /\ IF Persists(m)
                 THEN /\ messages' = st.messages
                      /\ currentId' = st.currentId
                      /\ pending' = Append(pending, [conn |-> c, room |-> m.room,
                                                     msg |-> OutMsg(m.type, m)])
                      /\ sent' = {}
                 ELSE /\ sent' = IF Broadcasts(m.type)
                                 THEN BroadcastToRoom(clients, cs, m.room,
                                                      OutMsg(m.type, m), c)
                                 ELSE {}
                      /\ UNCHANGED <<messages, currentId, pending>>
  /\ UNCHANGED <<now, clients, lastRelayedVersion, lastIngested,
                 HOCKER_PUSH_TOKEN, hook>>

(* The continuation of a newMessage handler after `await storage.addMessage` *)

Resume ==
  /\ pending # <<>>
  /\ sent' = BroadcastToRoom(clients, conn, pending[1].room, pending[1].msg,
                             pending[1].conn)
  /\ pending' = Tail(pending)
  /\ ev' = [kind |-> "resume", conn |-> pending[1].conn, type |-> "", verdict |-> ""]
  /\ UNCHANGED <<now, clients, conn, activeSessions,
                 usernameOwnership, messages, currentId, lastRelayedVersion,
                 lastIngested,
                 HOCKER_PUSH_TOKEN, hook>>

(* wss.on('connection'): room from the URL's query, default "global" *)

Connect(c, room) ==
  /\ conn[c].state = "none"
  /\ pending = <<>>
  /\ clients' = clients \cup {c}
  /\ conn' = [conn EXCEPT ![c] = [FreshConn EXCEPT !.state = "open",
                                                   !.messageCount = 0,
                                                   !.lastResetTime = now,
                                                   !.room = room]]
  /\ sent' = {}
  /\ ev' = [kind |-> "connect", conn |-> c, type |-> "", verdict |-> ""]
  /\ UNCHANGED <<now, activeSessions, usernameOwnership, messages,
                 currentId, pending, lastRelayedVersion, lastIngested,
                 HOCKER_PUSH_TOKEN, hook>>

(* ws.on('close') *)

\* the close handler dropping the session with its last connection
CloseSessions_Drops(sessions, w, t) ==
  IF w.sessionId # "" /\ w.sessionId \in DOMAIN sessions
  THEN IF sessions[w.sessionId].connectionCount <= 1
       THEN [s \in DOMAIN sessions \ {w.sessionId} |-> sessions[s]]
       ELSE [sessions EXCEPT ![w.sessionId].connectionCount = @ - 1,
                             ![w.sessionId].lastSeen = t]
  ELSE sessions

CloseSessions(sessions, w, t) ==
  IF w.sessionId # "" /\ w.sessionId \in DOMAIN sessions
  THEN [sessions EXCEPT
          ![w.sessionId].connectionCount = IF @ > 0 THEN @ - 1 ELSE 0,
          ![w.sessionId].lastSeen = t]
  ELSE sessions

CloseAnnounces(sessions, cl, cs, c) ==
  LET w == cs[c]
      remainingConnections == Cardinality({k \in cl : cs[k].sessionId = w.sessionId})
  IN  IF w.sessionId # "" /\ w.sessionId \in DOMAIN sessions
      THEN remainingConnections = 0 /\ w.username # "" /\ w.room # ""
      ELSE w.username # "" /\ w.room # ""

Close(c) ==
  /\ conn[c].state \in ReadyOpen \cup {"closing"}
  /\ pending = <<>>
  /\ clients' = clients \ {c}
  /\ activeSessions' = CloseSessions(activeSessions, conn[c], now)
  /\ sent' = IF CloseAnnounces(activeSessions, clients \ {c}, conn, c)
             THEN BroadcastToRoom(clients \ {c}, conn, conn[c].room,
                    [type |-> "leave", username |-> conn[c].username,
                     room |-> conn[c].room, content |-> <<>>], c)
             ELSE {}
  /\ conn' = [conn EXCEPT ![c] = [FreshConn EXCEPT !.state = "closed"]]
  /\ ev' = [kind |-> "close", conn |-> c, type |-> "",
            verdict |-> IF conn[c].state = "closing" THEN "failed" ELSE ""]
  /\ UNCHANGED <<now, usernameOwnership, messages, currentId, pending,
                 lastRelayedVersion, lastIngested,
                 HOCKER_PUSH_TOKEN, hook>>

(* A peer that stops reading: the socket stays in readyState OPEN and what  *)
(* ws.send is given from then on is buffered or lost, until the transport   *)
(* reports the error or the close. *)

Stall(c) ==
  /\ conn[c].state = "open"
  /\ pending = <<>>
  /\ conn' = [conn EXCEPT ![c].state = "stalled"]
  /\ sent' = {}
  /\ ev' = [kind |-> "stall", conn |-> c, type |-> "", verdict |-> ""]
  /\ UNCHANGED <<now, clients, activeSessions, usernameOwnership, messages,
                 currentId, pending, lastRelayedVersion, lastIngested,
                 HOCKER_PUSH_TOKEN, hook>>

(* ws.on('error'): the handler logs and takes the socket out of the         *)
(* connection set.  By the time it runs the socket has left readyState      *)
(* OPEN, and the socket's close event follows. *)

\* an error handler that logs and leaves the connection set alone
Error_LogsOnly(c) ==
  /\ conn[c].state \in ReadyOpen
  /\ pending = <<>>
  /\ conn' = [conn EXCEPT ![c].state = "closing"]
  /\ sent' = {}
  /\ ev' = [kind |-> "error", conn |-> c, type |-> "", verdict |-> ""]
  /\ UNCHANGED <<now, clients, activeSessions, usernameOwnership, messages,
                 currentId, pending, lastRelayedVersion, lastIngested,
                 HOCKER_PUSH_TOKEN, hook>>

Error(c) ==
  /\ conn[c].state \in ReadyOpen
  /\ pending = <<>>
  /\ clients' = clients \ {c}
  /\ conn' = [conn EXCEPT ![c].state = "closing"]
  /\ sent' = {}
  /\ ev' = [kind |-> "error", conn |-> c, type |-> "", verdict |-> ""]
  /\ UNCHANGED <<now, activeSessions, usernameOwnership, messages,
                 currentId, pending, lastRelayedVersion, lastIngested,
                 HOCKER_PUSH_TOKEN, hook>>

(* The session sweep.  Its interval timer runs from server start, so its     *)
(* phase against the connections' events is arbitrary: it may run at any    *)
(* time at which no handler is suspended. *)

ExpiredSessions(sessions, t) ==
  {s \in DOMAIN sessions : t - sessions[s].lastSeen > SESSION_TIMEOUT}

SweepOwnership(sessions, ownership, t) ==
  {e \in ownership :
     ~ \E s \in ExpiredSessions(sessions, t) :
         /\ e[1] = OwnershipKey(sessions[s].room, sessions[s].username)
         /\ MapGet(ownership, e[1]) = s}

SweepSessions(sessions, t) ==
  [s \in DOMAIN sessions \ ExpiredSessions(sessions, t) |-> sessions[s]]

Sweep ==
  /\ pending = <<>>
  /\ usernameOwnership' = SweepOwnership(activeSessions, usernameOwnership, now)
  /\ activeSessions' = SweepSessions(activeSessions, now)
  /\ sent' = {}
  /\ ev' = [kind |-> "sweep", conn |-> "", type |-> "", verdict |-> ""]
  /\ UNCHANGED <<now, clients, conn, messages, currentId, pending,
                 lastRelayedVersion, lastIngested,
                 HOCKER_PUSH_TOKEN, hook>>

(* Time passes by d milliseconds; a suspended handler resumes first *)

Tick(d) ==
  /\ pending = <<>>
  /\ now' = now + d
  /\ sent' = {}
  /\ ev' = [kind |-> "tick", conn |-> "", type |-> "", verdict |-> ""]
  /\ UNCHANGED <<clients, conn, activeSessions, usernameOwnership,
                 messages, currentId, pending, lastRelayedVersion, lastIngested,
                 HOCKER_PUSH_TOKEN, hook>>

----------------------------------------------------------------------------
(* The browser's useWebSocket hook.  The socket is "connecting" from        *)
(* `new WebSocket` until onopen or onclose, then "open" or "closed"; timer  *)
(* is the time the pending reconnect timeout is due at, 0 with none set.    *)
(* The effect's cleanup calls close(), which leaves the socket "closing"    *)
(* until its close event is delivered; mounted is FALSE from the cleanup on. *)

ReconnectDelay == 3000

\* the hook after its effect has run connect() for the first time
Mounted == [socket |-> "connecting", isConnected |-> FALSE, timer |-> 0,
            delays |-> <<>>, mounted |-> TRUE]

\* connect(): a new socket replaces wsRef.current
HookConnect(h) == [h EXCEPT !.socket = "connecting"]

\* onopen
HookOpened(h) == [h EXCEPT !.socket = "open", !.isConnected = TRUE, !.delays = <<>>]

\* onclose: a reconnect is set ReconnectDelay from now
HookClosed(h, t) ==
  [h EXCEPT !.socket = "closed", !.isConnected = FALSE,
            !.timer = t + ReconnectDelay,
            !.delays = Append(@, ReconnectDelay)]

HookStep(kind) == [kind |-> kind, conn |-> "", type |-> "", verdict |-> ""]

OnOpen ==
  /\ hook.socket = "connecting"
  /\ hook' = HookOpened(hook)
  /\ ev' = HookStep("onopen")
  /\ UNCHANGED serverVars

\* onerror, which only clears isConnected; the socket's close follows
OnError ==
  /\ hook.socket \in {"connecting", "open"}
  /\ hook.isConnected
  /\ hook' = [hook EXCEPT !.isConnected = FALSE]
  /\ ev' = HookStep("onerror")
  /\ UNCHANGED serverVars

\* onclose, of an open socket, of a connection attempt that failed or of a
\* socket the cleanup closed
OnClose ==
  /\ hook.socket \in {"connecting", "open", "closing"}
  /\ hook' = HookClosed(hook, now)
  /\ ev' = HookStep("onclose")
  /\ UNCHANGED serverVars

\* the effect's cleanup: clearTimeout, then close() on the socket in the ref
HookCleanup(h) ==
  [h EXCEPT !.mounted = FALSE, !.timer = 0,
            !.socket = IF @ \in {"connecting", "open"} THEN "closing" ELSE @]

\* the cleanup runs, on unmount or when room or username change; an open
\* socket is sent a leave frame first
Unmount ==
  /\ hook.mounted
  /\ hook' = HookCleanup(hook)
  /\ ev' = [HookStep("cleanup") EXCEPT
              !.type = IF hook.socket = "open" THEN "leave" ELSE ""]
  /\ UNCHANGED serverVars

\* the reconnect timeout fires
OnReconnectTimeout ==
  /\ hook.timer # 0 /\ now >= hook.timer
  /\ hook' = [HookConnect(hook) EXCEPT !.timer = 0]
  /\ ev' = HookStep("reconnect")
  /\ UNCHANGED serverVars

----------------------------------------------------------------------------
(* The Hacker News relay.  Text fields are sequences of one-character       *)
(* strings, as message content is. *)

RECURSIVE ReplaceAll(_, _, _)
\* value.replace(/pat/g, rep) for a literal pattern
ReplaceAll(value, pat, rep) ==
  IF Len(value) < Len(pat) \/ value = <<>>
  THEN value
  ELSE IF SubSeq(value, 1, Len(pat)) = pat
  THEN rep \o ReplaceAll(SubSeq(value, Len(pat) + 1, Len(value)), pat, rep)
  ELSE <<value[1]>> \o ReplaceAll(Tail(value), pat, rep)

decodeEntities(value) ==
  LET a == ReplaceAll(value, <<"&", "#", "x", "2", "7", ";">>, <<"'">>)
      b == ReplaceAll(a, <<"&", "#", "3", "9", ";">>, <<"'">>)
      c == ReplaceAll(b, <<"&", "q", "u", "o", "t", ";">>, <<"\"">>)
      d == ReplaceAll(c, <<"&", "a", "m", "p", ";">>, <<"&">>)
      e == ReplaceAll(d, <<"&", "l", "t", ";">>, <<"<">>)
  IN  ReplaceAll(e, <<"&", "g", "t", ";">>, <<">">>)

\* the end of a match of /<[^>]+>/ at the head of value, or 0
TagEnd(value) ==
  IF value # <<>> /\ value[1] = "<" /\ \E j \in 3..Len(value) : value[j] = ">"
  THEN LET j == CHOOSE k \in 2..Len(value) :
                  value[k] = ">" /\ \A i \in 2..(k - 1) : value[i] # ">"
       IN  IF j >= 3 THEN j ELSE 0
  ELSE 0

RECURSIVE StripTags(_)
\* value.replace(/<[^>]+>/g, " ")
StripTags(value) ==
  IF value = <<>> THEN <<>>
  ELSE IF TagEnd(value) # 0
  THEN <<" ">> \o StripTags(SubSeq(value, TagEnd(value) + 1, Len(value)))
  ELSE <<value[1]>> \o StripTags(Tail(value))

RECURSIVE CollapseWhitespace(_)
\* value.replace(/\s+/g, " ")
CollapseWhitespace(value) ==
  IF value = <<>> THEN <<>>
  ELSE IF value[1] \in Whitespace
  THEN IF Len(value) > 1 /\ value[2] \in Whitespace
       THEN CollapseWhitespace(Tail(value))
       ELSE <<" ">> \o CollapseWhitespace(Tail(value))
  ELSE <<value[1]>> \o CollapseWhitespace(Tail(value))

\* String.prototype.trim
Trim(value) ==
  LET keep == {i \in 1..Len(value) : value[i] \notin Whitespace}
  IN  IF keep = {} THEN <<>>
      ELSE SubSeq(value, CHOOSE i \in keep : \A k \in keep : i <= k,
                         CHOOSE i \in keep : \A k \in keep : i >= k)

stripHtml(value) == Trim(CollapseWhitespace(StripTags(decodeEntities(value))))

\* the first index from i on that holds no character of set, or Len + 1
SkipChars(value, i, set) ==
  IF \E k \in i..Len(value) : value[k] \notin set
  THEN CHOOSE k \in i..Len(value) :
         value[k] \notin set /\ \A j \in i..(k - 1) : value[j] \in set
  ELSE Len(value) + 1

CharAt(value, i) == IF i \in 1..Len(value) THEN value[i] ELSE ""

\* the letters of the tag names, for the i flag
LowerCase(ch) ==
  CASE ch = "B" -> "b" [] ch = "C" -> "c" [] ch = "D" -> "d" [] ch = "E" -> "e"
    [] ch = "H" -> "h" [] ch = "I" -> "i" [] ch = "K" -> "k" [] ch = "L" -> "l"
    [] ch = "O" -> "o" [] ch = "P" -> "p" [] ch = "Q" -> "q" [] ch = "R" -> "r"
    [] ch = "T" -> "t" [] ch = "U" -> "u" [] ch = "V" -> "v" [] OTHER -> ch

\* the end of a match of /<\s*br\s*\/?>/i at the head of value, or 0
BreakEnd(value) ==
  LET i == SkipChars(value, 2, Whitespace)
      j == SkipChars(value, i + 2, Whitespace)
      k == IF CharAt(value, j) = "/" THEN j + 1 ELSE j
  IN  IF /\ CharAt(value, 1) = "<"
         /\ LowerCase(CharAt(value, i)) = "b"
         /\ LowerCase(CharAt(value, i + 1)) = "r"
         /\ CharAt(value, k) = ">"
      THEN k ELSE 0

BlockTags ==
  {<<"p">>, <<"d", "i", "v">>, <<"l", "i">>,
   <<"b", "l", "o", "c", "k", "q", "u", "o", "t", "e">>,
   <<"h", "1">>, <<"h", "2">>, <<"h", "3">>, <<"h", "4">>, <<"h", "5">>, <<"h", "6">>}

\* the end of a match of /<\/\s*(p|div|li|blockquote|h1|...|h6)\s*>/i, or 0
BlockEnd(value) ==
  LET i == SkipChars(value, 3, Whitespace)
      ends == {SkipChars(value, i + Len(t), Whitespace) : t \in
                 {t \in BlockTags :
                    \A n \in 1..Len(t) : LowerCase(CharAt(value, i + n - 1)) = t[n]}}
      hits == {k \in ends : CharAt(value, k) = ">"}
  IN  IF CharAt(value, 1) = "<" /\ CharAt(value, 2) = "/" /\ hits # {}
      THEN CHOOSE k \in hits : TRUE ELSE 0

RECURSIVE ReplaceBreaks(_)
ReplaceBreaks(value) ==
  IF value = <<>> THEN <<>>
  ELSE IF BreakEnd(value) # 0
  THEN <<"\n">> \o ReplaceBreaks(SubSeq(value, BreakEnd(value) + 1, Len(value)))
  ELSE <<value[1]>> \o ReplaceBreaks(Tail(value))

RECURSIVE ReplaceBlockEnds(_)
ReplaceBlockEnds(value) ==
  IF value = <<>> THEN <<>>
  ELSE IF BlockEnd(value) # 0
  THEN <<"\n", "\n">> \o ReplaceBlockEnds(SubSeq(value, BlockEnd(value) + 1, Len(value)))
  ELSE <<value[1]>> \o ReplaceBlockEnds(Tail(value))

Blanks == {" ", "\t"}

RECURSIVE DropBlanksBeforeNewline(_)
\* value.replace(/[ \t]+\n/g, "\n")
DropBlanksBeforeNewline(value) ==
  IF value = <<>> THEN <<>>
  ELSE IF value[1] \in Blanks
  THEN LET k == SkipChars(value, 1, Blanks)
       IN  IF CharAt(value, k) = "\n"
           THEN <<"\n">> \o DropBlanksBeforeNewline(SubSeq(value, k + 1, Len(value)))
           ELSE SubSeq(value, 1, k - 1)
                  \o DropBlanksBeforeNewline(SubSeq(value, k, Len(value)))
  ELSE <<value[1]>> \o DropBlanksBeforeNewline(Tail(value))

RECURSIVE DropBlanksAfterNewline(_)
\* value.replace(/\n[ \t]+/g, "\n")
DropBlanksAfterNewline(value) ==
  IF value = <<>> THEN <<>>
  ELSE IF value[1] = "\n"
  THEN <<"\n">> \o DropBlanksAfterNewline(
                     SubSeq(value, SkipChars(value, 2, Blanks), Len(value)))
  ELSE <<value[1]>> \o DropBlanksAfterNewline(Tail(value))

RECURSIVE SplitParagraphs(_)
\* value.split(/\n{2,}/)
SplitParagraphs(value) ==
  IF \E i \in 1..(Len(value) - 1) : value[i] = "\n" /\ value[i + 1] = "\n"
  THEN LET i == CHOOSE k \in 1..(Len(value) - 1) :
                  /\ value[k] = "\n" /\ value[k + 1] = "\n"
                  /\ \A j \in 1..(k - 1) : ~(value[j] = "\n" /\ value[j + 1] = "\n")
       IN  <<SubSeq(value, 1, i - 1)>>
             \o SplitParagraphs(SubSeq(value, SkipChars(value, i, {"\n"}), Len(value)))
  ELSE <<value>>

RECURSIVE JoinParagraphs(_)
\* the non-empty paragraphs, each collapsed and trimmed, joined by " "
JoinParagraphs(lines) ==
  IF lines = <<>> THEN <<>>
  ELSE LET line == Trim(CollapseWhitespace(Head(lines)))
           rest == JoinParagraphs(Tail(lines))
       IN  IF line = <<>> THEN rest
           ELSE IF rest = <<>> THEN line
           ELSE line \o <<" ">> \o rest

\* htmlToParagraphs(value).join(" ")
htmlToParagraphs(value) ==
  LET a == ReplaceBlockEnds(ReplaceBreaks(decodeEntities(value)))
      b == ReplaceAll(StripTags(a), <<"\r">>, <<>>)
      normalized == Trim(DropBlanksAfterNewline(DropBlanksBeforeNewline(b)))
  IN  JoinParagraphs(SplitParagraphs(normalized))

RECURSIVE Digits(_)
\* the decimal digits of a non-negative integer (template-literal conversion)
Digits(n) ==
  LET d == <<"0", "1", "2", "3", "4", "5", "6", "7", "8", "9">>[(n % 10) + 1]
  IN  IF n < 10 THEN <<d>> ELSE Digits(n \div 10) \o <<d>>

\* [hnId, type, title, text, url, sourceUrl].join("|")
Version(item) ==
  Digits(item.hnId) \o <<"|", item.type, "|">> \o item.title \o <<"|">>
    \o item.text \o <<"|", item.url, "|", item.sourceUrl>>

\* lastRelayedVersion.get(hnId); <<>> for undefined
LedgerGet(ledger, hnId) ==
  IF \E i \in 1..Len(ledger) : ledger[i][1] = hnId
  THEN ledger[CHOOSE i \in 1..Len(ledger) : ledger[i][1] = hnId][2]
  ELSE <<>>

\* Map.set: a known key keeps its place in the insertion order
LedgerSet(ledger, hnId, version) ==
  IF \E i \in 1..Len(ledger) : ledger[i][1] = hnId
  THEN [i \in 1..Len(ledger) |->
          IF ledger[i][1] = hnId THEN <<hnId, version>> ELSE ledger[i]]
  ELSE Append(ledger, <<hnId, version>>)

\* the size check deleting the key set last instead of the first one
LedgerEvict_Newest(ledger) ==
  IF Len(ledger) > LedgerCap THEN SubSeq(ledger, 1, Len(ledger) - 1) ELSE ledger

\* the size check after the set: the first key in insertion order goes
LedgerEvict(ledger) ==
  IF Len(ledger) > LedgerCap THEN Tail(ledger) ELSE ledger

\* messageText: the title line, else the text's paragraphs, else the item's number
MessageText(item) ==
  LET titleLine == stripHtml(item.title)
      bodyText == IF item.text # <<>> THEN htmlToParagraphs(item.text) ELSE <<>>
  IN  IF titleLine # <<>> THEN titleLine
      ELSE IF bodyText # <<>> THEN bodyText
      ELSE <<"H", "N", " ", "i", "t", "e", "m", " ", "#">> \o Digits(item.hnId)

RelayMessage(item, room) ==
  [type |-> "newMessage",
   username |-> "HN:" \o (IF item.by # "" THEN item.by ELSE "unknown"),
   room |-> room, content |-> MessageText(item)]

\* the frame broadcast without the serverPrepared mark
RelayBroadcast_Unmarked(item, room) ==
  [type |-> "newMessage",
   username |-> "HN:" \o (IF item.by # "" THEN item.by ELSE "unknown"),
   room |-> room, content |-> MessageText(item), serverPrepared |-> FALSE]

\* the frame relayHockerItem broadcasts once the message is stored
RelayBroadcast(item, room) ==
  [type |-> "newMessage",
   username |-> "HN:" \o (IF item.by # "" THEN item.by ELSE "unknown"),
   room |-> room, content |-> MessageText(item), serverPrepared |-> TRUE]

\* the ledger keyed by room and item id
PostRelay_RoomKeyed(item, room) ==
  /\ pending = <<>>
  /\ LET target == IF room # "" THEN room ELSE HOCKER_RELAY_ROOM
         version == Version(item)
         key == IF target = HOCKER_RELAY_ROOM THEN item.hnId ELSE 0 - item.hnId
         st == AddMessage(messages, currentId, RelayMessage(item, target), now)
     IN  IF ~item.present \/ ~item.finite
         THEN /\ ev' = [kind |-> "relay", conn |-> "", type |-> "", verdict |-> "400",
                      room |-> ""]
              /\ UNCHANGED <<messages, currentId, pending, lastRelayedVersion,
                             lastIngested>>
         ELSE /\ lastIngested' = [i \in DOMAIN lastIngested |->
                                    IF i = item.hnId THEN version ELSE lastIngested[i]]
              /\ IF LedgerGet(lastRelayedVersion, key) = version
                 THEN /\ ev' = [kind |-> "relay", conn |-> "", type |-> "",
                                verdict |-> "duplicate", room |-> target]
                      /\ UNCHANGED <<messages, currentId, pending, lastRelayedVersion>>
                 ELSE /\ lastRelayedVersion' =
                           LedgerEvict(LedgerSet(lastRelayedVersion, key, version))
                      /\ messages' = st.messages
                      /\ currentId' = st.currentId
                      /\ pending' = <<[conn |-> "", room |-> target,
                                       msg |-> RelayBroadcast(item, target)]>>
                      /\ ev' = [kind |-> "relay", conn |-> "", type |-> "newMessage",
                                verdict |-> "relayed", room |-> target]
  /\ sent' = {}
  /\ UNCHANGED <<now, clients, conn, activeSessions, usernameOwnership,
                 HOCKER_PUSH_TOKEN, hook>>

(* POST /api/relay/hn-item past the token gate, with relayHockerItem up to  *)
(* its await; the whole handler when no push token is configured.  The      *)
(* broadcast follows in Resume. *)

PostRelay(item, room) ==
  /\ pending = <<>>
  /\ LET target == IF room # "" THEN room ELSE HOCKER_RELAY_ROOM
         version == Version(item)
         st == AddMessage(messages, currentId, RelayMessage(item, target), now)
     IN  IF ~item.present \/ ~item.finite
         THEN /\ ev' = [kind |-> "relay", conn |-> "", type |-> "", verdict |-> "400",
                      room |-> ""]
              /\ UNCHANGED <<messages, currentId, pending, lastRelayedVersion,
                             lastIngested>>
         ELSE /\ lastIngested' = [i \in DOMAIN lastIngested |->
                                    IF i = item.hnId THEN version ELSE lastIngested[i]]
              /\ IF LedgerGet(lastRelayedVersion, item.hnId) = version
                 THEN /\ ev' = [kind |-> "relay", conn |-> "", type |-> "",
                                verdict |-> "duplicate", room |-> target]
                      /\ UNCHANGED <<messages, currentId, pending, lastRelayedVersion>>
                 ELSE /\ lastRelayedVersion' =
                           LedgerEvict(LedgerSet(lastRelayedVersion, item.hnId, version))
                      /\ messages' = st.messages
                      /\ currentId' = st.currentId
                      /\ pending' = <<[conn |-> "", room |-> target,
                                       msg |-> RelayBroadcast(item, target)]>>
                      /\ ev' = [kind |-> "relay", conn |-> "", type |-> "newMessage",
                                verdict |-> "relayed", room |-> target]
  /\ sent' = {}
  /\ UNCHANGED <<now, clients, conn, activeSessions, usernameOwnership,
                 HOCKER_PUSH_TOKEN, hook>>

\* the gate letting every request through
TokenRejected_Open(configured, token) == FALSE

\* the x-hocker-token check; "" for an absent header
TokenRejected(configured, token) == configured # "" /\ token # configured

\* the status of the response sent on each path of the handler
RelayResponse(verdict) ==
  IF verdict = "401" THEN [status |-> 401, error |-> "Unauthorized relay token"]
  ELSE IF verdict = "400"
  THEN [status |-> 400, error |-> "Expected payload { item: { hnId, ... } }"]
  ELSE [status |-> 200, error |-> ""]

\* the body of the response that acknowledges a request
RelayAck(hnId, room) == [ok |-> TRUE, hnId |-> hnId, room |-> room]

(* POST /api/relay/hn-item, the whole handler; a relay event carries the    *)
(* room of the acknowledgement, "" when the request is turned down *)

PostRelayRequest(token, item, room) ==
  IF TokenRejected(HOCKER_PUSH_TOKEN, token)
  THEN /\ pending = <<>>
       /\ ev' = [kind |-> "relay", conn |-> "", type |-> "", verdict |-> "401",
                 room |-> ""]
       /\ sent' = {}
       /\ UNCHANGED <<now, clients, conn, activeSessions, usernameOwnership,
                      messages, currentId, pending, lastRelayedVersion,
                      lastIngested, HOCKER_PUSH_TOKEN, hook>>
  ELSE PostRelay(item, room)

----------------------------------------------------------------------------
(* MemStorage: the TTL sweep and the history query *)

\* the comparison taking a message exactly at the cutoff as well
DeleteOldMessages_Inclusive(store, olderThanMinutes, t) ==
  LET cutoffTime == t - olderThanMinutes * 60 * 1000
  IN  SelectSeq(store, LAMBDA m : ~(m.timestamp <= cutoffTime))

\* deleteOldMessages(olderThanMinutes) at time t
DeleteOldMessages(store, olderThanMinutes, t) ==
  LET cutoffTime == t - olderThanMinutes * 60 * 1000
  IN  SelectSeq(store, LAMBDA m : ~(m.timestamp < cutoffTime))

\* The constructor's interval timer; its phase is arbitrary
StoreSweep ==
  /\ pending = <<>>
  /\ messages' = DeleteOldMessages(messages, RetentionMinutes, now)
  /\ sent' = {}
  /\ ev' = [kind |-> "storeSweep", conn |-> "", type |-> "", verdict |-> ""]
  /\ UNCHANGED <<now, clients, conn, activeSessions, usernameOwnership,
                 currentId, pending, lastRelayedVersion, lastIngested,
                 HOCKER_PUSH_TOKEN, hook>>

RECURSIVE SortNewestFirst(_)
\* Array.prototype.sort by descending timestamp; the sort is stable
SortNewestFirst(list) ==
  IF list = <<>> THEN <<>>
  ELSE LET rest == SortNewestFirst(Tail(list))
           m == Head(list)
           k == Cardinality({i \in 1..Len(rest) : rest[i].timestamp > m.timestamp})
       IN  SubSeq(rest, 1, k) \o <<m>> \o SubSeq(rest, k + 1, Len(rest))

Reverse(list) == [i \in 1..Len(list) |-> list[Len(list) + 1 - i]]

\* mutant: the final reverse left out
GetRecentMessages_NewestFirst(store, room, limit) ==
  LET roomMessages == SortNewestFirst(SelectSeq(store, LAMBDA m : m.room = room))
      cut == IF limit < Len(roomMessages) THEN limit ELSE Len(roomMessages)
  IN  SubSeq(roomMessages, 1, cut)

\* getRecentMessages(room, limit)
GetRecentMessages(store, room, limit) ==
  LET roomMessages == SortNewestFirst(SelectSeq(store, LAMBDA m : m.room = room))
      cut == IF limit < Len(roomMessages) THEN limit ELSE Len(roomMessages)
  IN  Reverse(SubSeq(roomMessages, 1, cut))

\* GET /api/messages/:room
History(room) == GetRecentMessages(messages, room, HistoryLimit)

----------------------------------------------------------------------------
(* Initial state: the server has started, nobody is connected *)

Started ==
  /\ hook = Mounted
  /\ now = 1
  /\ clients = {}
  /\ conn = [c \in Conns |-> FreshConn]
  /\ activeSessions = <<>>
  /\ usernameOwnership = {}
  /\ messages = <<>>
  /\ currentId = 1
  /\ pending = <<>>
  /\ lastRelayedVersion = <<>>
  /\ lastIngested = [i \in TrackedIds |-> <<>>]
  /\ sent = {}
  /\ ev = NoEvent

\* no push token in the environment
Init == Started /\ HOCKER_PUSH_TOKEN = ""

Elapsed == now - 1

(* Inbound frames *)

JoinFrames ==
  {[type |-> "join", username |-> u, room |-> r, content |-> <<>>, hasY |-> FALSE,
    sessionId |-> s, browserFingerprint |-> p] :
     u \in Usernames, r \in Rooms, s \in SessionIds, p \in Fingerprints}

TypedFrames(types, contents) ==
  {[type |-> t, username |-> u, room |-> r, content |-> ct, hasY |-> TRUE,
    sessionId |-> "", browserFingerprint |-> ""] :
     t \in types, u \in Usernames, r \in Rooms, ct \in contents}

GoodContent == <<"h", "i">>
BadContent == <<"!", "?">>

Frames ==
  JoinFrames
    \cup TypedFrames({"keystroke", "newMessage"}, {<<>>, GoodContent})
    \cup TypedFrames({"leave", "nameError"}, {<<>>})

ExpiryFrames == JoinFrames \cup TypedFrames({"keystroke"}, {<<>>})

RateFrames ==
  {[type |-> t, username |-> "alice", room |-> "", content |-> ct, hasY |-> TRUE,
    sessionId |-> "", browserFingerprint |-> ""] :
     t \in {"keystroke", "newMessage", "bogus"}, ct \in {GoodContent, BadContent}}

(* A frame the bounds let in: its window count and the store's size *)
Admits(c, f, counted) ==
  /\ CheckRateLimit(conn[c], now).ws.messageCount <= counted
  /\ Persists(f) => Len(messages) < MaxStored

TickSlot ==
  /\ Elapsed % SESSION_TIMEOUT < MaxSlots * minInterval
  /\ Tick(minInterval)

TickEpoch ==
  /\ Elapsed \div SESSION_TIMEOUT < MaxEpochs
  /\ Tick(SESSION_TIMEOUT)

(* Spec: connections joining, typing, sending and leaving within a few      *)
(* intervals of each other; no session grows old enough for the sweep to    *)
(* find it, so the sweep is left to SpecExpiry *)

Next ==
  \/ \E c \in Conns, r \in Rooms : Connect(c, r)
  \/ \E c \in Conns, f \in Frames, g \in GeneratedIds :
       Admits(c, f, MaxFrames) /\ HandleMessage(c, f, g)
  \/ Resume
  \/ \E c \in Conns : Close(c)
  \/ TickSlot

Spec == Init /\ [][Next]_vars

(* SpecPersist: c1 types and sends messages with and without content and    *)
(* yPosition while c2 listens *)

PersistFrames ==
  {[type |-> t, username |-> "alice", room |-> "global", content |-> ct,
    hasY |-> y, sessionId |-> "", browserFingerprint |-> ""] :
     t \in {"keystroke", "newMessage"}, ct \in {<<>>, GoodContent}, y \in BOOLEAN}

NextPersist ==
  \/ \E c \in Conns, r \in Rooms : Connect(c, r)
  \/ \E f \in PersistFrames, g \in GeneratedIds :
       Admits("c1", f, MaxStoreFrames) /\ HandleMessage("c1", f, g)
  \/ Resume
  \/ TickSlot

SpecPersist == Init /\ [][NextPersist]_vars

(* SpecRace: two browsers, each with its own session and fingerprint, join  *)
(* as alice in "global" at about the same time, each with its first frame   *)

RaceJoin(c) ==
  [type |-> "join", username |-> "alice", room |-> "global", content |-> <<>>,
   hasY |-> FALSE,
   sessionId |-> IF c = "c1" THEN "s1" ELSE "s2",
   browserFingerprint |-> IF c = "c1" THEN "f1" ELSE "f2"]

NextRace ==
  \/ \E c \in Conns, r \in Rooms : Connect(c, r)
  \/ \E c \in Conns, g \in GeneratedIds :
       conn[c].messageCount = 0 /\ HandleMessage(c, RaceJoin(c), g)
  \/ \E c \in Conns : Close(c)
  \/ TickSlot

SpecRace == Init /\ [][NextRace]_vars

(* SpecExpiry: sessions going idle for the session timeout, and the sweep *)

NextExpiry ==
  \/ \E c \in Conns, r \in Rooms : Connect(c, r)
  \/ \E c \in Conns, f \in ExpiryFrames, g \in GeneratedIds :
       Admits(c, f, MaxWindowFrames) /\ HandleMessage(c, f, g)
  \/ \E c \in Conns : Close(c)
  \/ Sweep
  \/ TickSlot
  \/ TickEpoch

SpecExpiry == Init /\ [][NextExpiry]_vars

(* SpecLeave: as SpecExpiry, with leave frames in place of keystrokes *)

LeaveFrames == JoinFrames \cup TypedFrames({"leave"}, {<<>>})

NextLeave ==
  \/ \E c \in Conns, r \in Rooms : Connect(c, r)
  \/ \E c \in Conns, f \in LeaveFrames, g \in GeneratedIds :
       Admits(c, f, MaxWindowFrames) /\ HandleMessage(c, f, g)
  \/ \E c \in Conns : Close(c)
  \/ Sweep
  \/ TickSlot
  \/ TickEpoch

SpecLeave == Init /\ [][NextLeave]_vars

(* SpecRate: one connection sending against the rate gate, another listening *)

TickOne ==
  /\ (Elapsed % windowMs) % (minInterval - 1) < MaxOnes
  /\ Tick(1)

TickShort ==
  /\ (Elapsed % windowMs) \div (minInterval - 1) < MaxShorts
  /\ Tick(minInterval - 1)

TickWindow ==
  /\ Elapsed \div windowMs < MaxWindows
  /\ Tick(windowMs)

NextRate ==
  \/ \E c \in Conns : Connect(c, "global")
  \/ \E f \in RateFrames, g \in GeneratedIds :
       Admits("c1", f, maxMessages + MaxOverflow) /\ HandleMessage("c1", f, g)
  \/ Resume
  \/ TickOne
  \/ TickShort
  \/ TickWindow

SpecRate == Init /\ [][NextRate]_vars

(* SpecGates: as SpecRate, with joins of two sessions on the one connection, *)
(* the second of which the first one's ownership of the name turns away      *)

GateFrames ==
  {[type |-> t, username |-> "alice", room |-> "", content |-> ct, hasY |-> TRUE,
    sessionId |-> "", browserFingerprint |-> ""] :
     t \in {"keystroke", "bogus"}, ct \in {GoodContent, BadContent}}
    \cup {[type |-> "join", username |-> "alice", room |-> "", content |-> <<>>,
           hasY |-> FALSE, sessionId |-> s[1], browserFingerprint |-> s[2]] :
            s \in {<<"s1", "f1">>, <<"s2", "f2">>}}

NextGates ==
  \/ Connect("c1", "global")
  \/ \E f \in GateFrames, g \in GeneratedIds :
       Admits("c1", f, maxMessages + MaxOverflow) /\ HandleMessage("c1", f, g)
  \/ TickOne
  \/ TickShort
  \/ TickWindow

SpecGates == Init /\ [][NextGates]_vars

(* SpecStore: the message store under client messages, relayed items, the   *)
(* TTL sweep and the passing of the retention time *)

Item(hnId, title) ==
  [present |-> TRUE, finite |-> TRUE, hnId |-> hnId, by |-> "pg", type |-> "story",
   title |-> title, text |-> <<>>, url |-> "", sourceUrl |-> ""]

NoItem == [Item(0, <<>>) EXCEPT !.present = FALSE]

StoreFrames == TypedFrames({"newMessage"}, {GoodContent, BadContent})

StoreItems == {Item(1, GoodContent), Item(1, BadContent), NoItem}

NextStore ==
  \/ \E c \in Conns, r \in Rooms : Connect(c, r)
  \/ \E f \in StoreFrames, g \in GeneratedIds :
       /\ CheckRateLimit(conn["c1"], now).ws.messageCount <= MaxStoreFrames
       /\ Len(messages) < MaxKept
       /\ HandleMessage("c1", f, g)
  \/ \E item \in StoreItems, r \in {"", "demo"} :
       Len(messages) < MaxKept /\ PostRelay(item, r)
  \/ Resume
  \/ StoreSweep
  \/ TickSlot
  \/ TickEpoch

SpecStore == Init /\ [][NextStore]_vars

(* SpecLedger: the relay's ledger of versions, from a server just started   *)
(* or from one that has relayed item 1 and then LedgerCap - 1 further items *)
(* long enough ago for the TTL sweep to have emptied the store *)

Filler(hnId) == [Item(hnId, <<>>) EXCEPT !.by = "", !.type = ""]

WarmLedger ==
  <<<<1, Version(Item(1, GoodContent))>>>>
    \o [i \in 1..(LedgerCap - 1) |-> <<i + 2, Version(Filler(i + 2))>>]

InitLedger ==
  /\ HOCKER_PUSH_TOKEN = ""
  /\ hook = Mounted
  /\ clients = {}
  /\ conn = [c \in Conns |-> FreshConn]
  /\ activeSessions = <<>>
  /\ usernameOwnership = {}
  /\ messages = <<>>
  /\ pending = <<>>
  /\ sent = {}
  /\ ev = NoEvent
  /\ \/ /\ now = 1
        /\ currentId = 1
        /\ lastRelayedVersion = <<>>
        /\ lastIngested = [i \in TrackedIds |-> <<>>]
     \/ /\ now = 1 + 2 * RetentionMinutes * 60 * 1000
        /\ currentId = LedgerCap + 1
        /\ lastRelayedVersion = WarmLedger
        /\ lastIngested = [i \in TrackedIds |->
                             IF i = 1 THEN Version(Item(1, GoodContent)) ELSE <<>>]

LedgerItems == {Item(1, GoodContent), Item(1, BadContent), Item(2, GoodContent)}

NextLedger ==
  \/ \E c \in Conns : Connect(c, "global")
  \/ \E item \in LedgerItems, r \in {"", "demo"} :
       Len(messages) < MaxRelayed /\ PostRelay(item, r)
  \/ Resume

SpecLedger == InitLedger /\ [][NextLedger]_vars

(* the continuation of relayHockerItem's await is a queued microtask: it runs *)
SpecLedgerLive == SpecLedger /\ WF_vars(Resume)

(* SpecHook: one browser's hook against a server that accepts or fails its  *)
(* connection attempts; time passes a second at a time *)

MaxSeconds == 12
MaxAttempts == 3

NextHook ==
  \/ OnOpen
  \/ OnError
  \/ Len(hook.delays) < MaxAttempts /\ OnClose
  \/ OnReconnectTimeout
  \/ Elapsed < MaxSeconds * 1000 /\ Tick(1000)

SpecHook == Init /\ [][NextHook]_vars

(* SpecPlaceholder: joins that leave out the session id, the fingerprint or  *)
(* both; an id the server generates is one no session has *)

PlaceholderJoins ==
  {[type |-> "join", username |-> "alice", room |-> "global", content |-> <<>>,
    hasY |-> FALSE, sessionId |-> s, browserFingerprint |-> p] :
     s \in {""} \cup SessionIds, p \in {"", "f1"}}

FreshIds == {"session_g", "session_h"}

NextPlaceholder ==
  \/ \E c \in Conns, r \in Rooms : Connect(c, r)
  \/ \E c \in Conns, f \in PlaceholderJoins, g \in FreshIds :
       /\ conn[c].messageCount = 0
       /\ g \notin DOMAIN activeSessions
       /\ HandleMessage(c, f, g)
  \/ \E c \in Conns : Close(c)

SpecPlaceholder == Init /\ [][NextPlaceholder]_vars

(* SpecStall: a relayed item fanned out to a room where a peer has stopped   *)
(* reading or has failed *)

NextStall ==
  \/ \E c \in Conns, r \in Rooms : Connect(c, r)
  \/ \E c \in Conns : Stall(c)
  \/ \E i \in TrackedIds, r \in Rooms :
       Len(messages) < MaxRelayed /\ PostRelay(Item(i, GoodContent), r)
  \/ Resume
  \/ \E c \in Conns : Error(c)
  \/ \E c \in Conns : Close(c)

SpecStall == Init /\ [][NextStall]_vars

(* SpecTeardown: the hook's connection cycle with the effect's cleanup *)

NextTeardown ==
  \/ OnOpen
  \/ OnError
  \/ Len(hook.delays) < MaxAttempts /\ OnClose
  \/ OnReconnectTimeout
  \/ Unmount
  \/ Elapsed < MaxSeconds * 1000 /\ Tick(1000)

SpecTeardown == Init /\ [][NextTeardown]_vars

(* SpecGate: the ingestion endpoint of a server started with or without a   *)
(* push token, and requests with a right, a wrong or no token *)

PushToken == "secret"

InitGate == Started /\ HOCKER_PUSH_TOKEN \in {"", PushToken}

NotFinite == [Item(0, GoodContent) EXCEPT !.finite = FALSE]

GateItems == {Item(1, GoodContent), Item(1, BadContent), Item(2, GoodContent),
              NoItem, NotFinite}

NextGate ==
  \/ \E c \in Conns, r \in Rooms : Connect(c, r)
  \/ \E token \in {"", PushToken, "guess"}, item \in GateItems, r \in {"", "demo"} :
       Len(messages) < MaxRelayed /\ PostRelayRequest(token, item, r)
  \/ Resume

SpecGate == InitGate /\ [][NextGate]_vars

(* SpecContent: joins and typed frames whose content the heuristics reject,  *)
(* beside the ones they let through *)

ContentFrames ==
  {f \in JoinFrames \cup {[j EXCEPT !.content = BadContent] : j \in JoinFrames}
            \cup TypedFrames({"keystroke", "newMessage"}, {GoodContent, BadContent}) :
     f.room = "global"}

NextContent ==
  \/ \E c \in Conns : Connect(c, "global")
  \/ \E c \in Conns, f \in ContentFrames, g \in GeneratedIds :
       Admits(c, f, MaxContentFrames) /\ HandleMessage(c, f, g)
  \/ Resume
  \/ TickSlot

SpecContent == Init /\ [][NextContent]_vars

(* SpecError: connections that fail.  The close event that follows a        *)
(* transport error is not left out forever. *)

NextError ==
  \/ \E c \in Conns, r \in Rooms : Connect(c, r)
  \/ \E c \in Conns, f \in ExpiryFrames, g \in GeneratedIds :
       Admits(c, f, MaxWindowFrames) /\ HandleMessage(c, f, g)
  \/ \E c \in Conns : Error(c)
  \/ \E c \in Conns : Close(c)

SpecError ==
  /\ Init
  /\ [][NextError]_vars
  /\ \A c \in Conns : WF_vars(conn[c].state = "closing" /\ Close(c))

----------------------------------------------------------------------------
(* Claims *)

Owner(room, username) == MapGet(usernameOwnership, OwnershipKey(room, username))

\* (room, username) is owned by a live session whose fingerprint is not fp
OwnedByOther(room, username, fp) ==
  LET o == Owner(room, username)
  IN  /\ o # ""
      /\ o \in DOMAIN activeSessions
      /\ activeSessions[o].browserFingerprint # fp

FrameDenied == ev.kind = "frame" /\ ev.verdict = "denied"

\* C1: no keystroke, newMessage or leave frame whose username is owned in the
\* frame's room by a live session with another fingerprint than the sending
\* connection's is broadcast (sent) or persisted (a handler past its append).
C1_NoImpersonation ==
  /\ \A x \in sent :
       (ev.kind \in {"frame", "resume"}
          /\ x.msg.type \in {"keystroke", "newMessage", "leave"})
       => ~OwnedByOther(x.msg.room, x.msg.username, conn[x.from].browserFingerprint)
  /\ \A i \in 1..Len(pending) :
       ~OwnedByOther(pending[i].msg.room, pending[i].msg.username,
                     conn[pending[i].conn].browserFingerprint)

\* C2: validateNameOwnership denies exactly when the key has a recorded owner
\* whose session is in the session map, is not the requesting session and has
\* another fingerprint than the requesting one.
DenyCondition(username, room, sessionId, fp) ==
  \E e \in usernameOwnership :
     /\ e[1] = OwnershipKey(room, username)
     /\ e[2] \in DOMAIN activeSessions
     /\ e[2] # sessionId
     /\ activeSessions[e[2]].browserFingerprint # fp

C2_DeniesIff ==
  \A u \in Usernames, r \in Rooms, s \in SessionIds, p \in Fingerprints :
     ValidateNameOwnership(activeSessions, usernameOwnership, u, r, s, p).allowed
       <=> ~DenyCondition(u, r, s, p)

C2_Witness ==
  /\ \E u \in Usernames, r \in Rooms, s \in SessionIds, p \in Fingerprints :
        DenyCondition(u, r, s, p)
  /\ \E e \in usernameOwnership : e[2] \notin DOMAIN activeSessions
  /\ \E u \in Usernames, r \in Rooms, s \in SessionIds :
        /\ Owner(r, u) \in DOMAIN activeSessions
        /\ Owner(r, u) # s
        /\ ~DenyCondition(u, r, s, activeSessions[Owner(r, u)].browserFingerprint)

C4_DeniedJoinInert ==
  [][(FrameDenied' /\ ev'.type = "join")
       => /\ usernameOwnership' = usernameOwnership
          /\ activeSessions' = activeSessions
          /\ conn'[ev'.conn].sessionId = conn[ev'.conn].sessionId
          /\ conn'[ev'.conn].browserFingerprint = conn[ev'.conn].browserFingerprint]_vars

C4_Witness ==
  /\ FrameDenied
  /\ ev.type = "join"
  /\ conn[ev.conn].sessionId = ""

\* C5: a session whose lastSeen is older than the timeout never causes a
\* denial: whoever is denied, the owner that denied it was seen within the
\* timeout.
C5_StaleOwnerNeverDenies ==
  FrameDenied =>
    \A x \in sent :
       Owner(x.msg.room, x.msg.username) \in DOMAIN activeSessions
       => now - activeSessions[Owner(x.msg.room, x.msg.username)].lastSeen
            <= SESSION_TIMEOUT

\* C6: after a sweep no session older than the timeout is left, and no
\* ownership entry names a session that sweep removed.
C6_SweepReleasesAll ==
  [][ev'.kind = "sweep"
       => /\ \A s \in DOMAIN activeSessions' :
               now' - activeSessions'[s].lastSeen <= SESSION_TIMEOUT
          /\ \A e \in usernameOwnership' :
               e[2] \notin (DOMAIN activeSessions \ DOMAIN activeSessions')]_vars

\* C7: a frame that fails validation sends one nameError, to its own
\* connection, and changes neither the store, the maps, the suspended
\* handlers nor the connection's username and room tags.
C7_DeniedFrameInert ==
  [][FrameDenied'
       => /\ \E x \in sent' :
               sent' = {x} /\ x.to = ev'.conn /\ x.msg.type = "nameError"
          /\ messages' = messages
          /\ currentId' = currentId
          /\ pending' = pending
          /\ usernameOwnership' = usernameOwnership
          /\ activeSessions' = activeSessions
          /\ conn'[ev'.conn].username = conn[ev'.conn].username
          /\ conn'[ev'.conn].room = conn[ev'.conn].room]_vars

\* a denied non-join frame for another room than the connection's
C7_Witness ==
  /\ FrameDenied
  /\ ev.type \in {"keystroke", "newMessage", "leave"}
  /\ \E x \in sent : x.msg.room # conn[ev.conn].room

\* C8: a nameError on the wire goes to the one connection whose frame was
\* denied in that step; an inbound frame of type nameError puts nothing on
\* the wire.
C8_NameErrorUnicast ==
  /\ \A x \in sent :
       x.msg.type = "nameError" => FrameDenied /\ x.to = ev.conn /\ sent = {x}
  /\ \A i \in 1..Len(pending) : pending[i].msg.type # "nameError"
  /\ (ev.kind = "frame" /\ ev.type = "nameError") => (FrameDenied \/ sent = {})

\* an inbound nameError frame accepted while another connection listens in its room
C8_Witness ==
  /\ ev.kind = "frame"
  /\ ev.type = "nameError"
  /\ ev.verdict = "ok"
  /\ \E k \in clients \ {ev.conn} : conn[k].room = conn[ev.conn].room

\* C9: a frame arriving less than minInterval after the connection's last
\* accepted frame is dropped and changes nothing; a frame is accepted only
\* minInterval or more after the previous accepted one.
C9_MinInterval ==
  [][\A c \in Conns :
       (ev'.kind = "frame" /\ ev'.conn = c /\ conn[c].lastMessageTime # 0)
       => /\ now - conn[c].lastMessageTime < minInterval
               => /\ ev'.verdict = "rate"
                  /\ conn'[c] = conn[c]
                  /\ sent' = {}
                  /\ messages' = messages
                  /\ pending' = pending
          /\ ev'.verdict = "ok"
               => /\ now - conn[c].lastMessageTime >= minInterval
                  /\ conn'[c].lastMessageTime = now]_vars

\* a frame dropped one millisecond short of the interval, a listener in the room
C9_Witness ==
  /\ ev.kind = "frame"
  /\ ev.verdict = "rate"
  /\ conn[ev.conn].messageCount <= maxMessages
  /\ now - conn[ev.conn].lastMessageTime = minInterval - 1
  /\ \E k \in clients \ {ev.conn} : conn[k].room = conn[ev.conn].room

\* C10: a frame passes the rate gate only as one of the first maxMessages
\* of its window, each counted once; a frame over the cap, or dropped by the
\* gate for any reason, appends nothing and broadcasts nothing; the window's
\* count and start are reset only by a frame that arrives more than windowMs
\* after the window's start.
C10_WindowCap ==
  [][\A c \in Conns :
       /\ (ev'.kind = "frame" /\ ev'.conn = c /\ ev'.verdict # "rate")
            => /\ conn'[c].messageCount <= maxMessages
               /\ conn'[c].lastResetTime = conn[c].lastResetTime
                    => conn'[c].messageCount = conn[c].messageCount + 1
       /\ (ev'.kind = "frame" /\ ev'.conn = c
             /\ conn[c].messageCount >= maxMessages
             /\ now - conn[c].lastResetTime <= windowMs)
            => ev'.verdict = "rate"
       /\ (ev'.kind = "frame" /\ ev'.conn = c /\ ev'.verdict = "rate")
            => /\ sent' = {}
               /\ messages' = messages
               /\ currentId' = currentId
               /\ pending' = pending
       /\ (conn[c].state = "open" /\ conn'[c].state = "open"
             /\ (conn'[c].lastResetTime # conn[c].lastResetTime
                   \/ conn'[c].messageCount < conn[c].messageCount))
            => /\ ev'.kind = "frame"
               /\ ev'.conn = c
               /\ now - conn[c].lastResetTime > windowMs
               /\ conn'[c].lastResetTime = now]_vars

\* a frame dropped over the cap while the store has room and a listener is in the room
C10_Witness ==
  /\ ev.kind = "frame"
  /\ ev.verdict = "rate"
  /\ conn[ev.conn].messageCount > maxMessages
  /\ Len(messages) < MaxStored
  /\ \E k \in clients \ {ev.conn} : conn[k].room = conn[ev.conn].room

\* C11: no content the heuristics reject (longer than 200, a run of 11 equal
\* characters, more than half special characters) is in the store or on the
\* wire, whether it came in a client frame or in a relayed item.
C11_NoRejectedContent ==
  /\ \A i \in 1..Len(messages) : ~ContentRejected(messages[i].content)
  /\ \A x \in sent : ~ContentRejected(x.msg.content)

\* C12: a frame that the rate gate refuses or whose content the heuristics
\* reject puts nothing on the wire, for the sender or anybody else.
C12_SilentDrop ==
  [][\A c \in Conns, f \in ContentFrames, g \in GeneratedIds :
       (/\ HandleMessage(c, f, g)
        /\ (ContentRejected(f.content) \/ ~CheckRateLimit(conn[c], now).pass))
       => sent' = {}]_vars

\* C13: a broadcast reaches exactly the connections of the connection set
\* that are open and tagged with the target room, except the sender; the
\* sender's other connections in the room are among them.
C13_BroadcastRecipients ==
  [][/\ (ev'.kind = "frame" /\ ev'.verdict = "ok"
           /\ ev'.type \in {"keystroke", "join", "leave"})
        => /\ {x.to : x \in sent'} =
                {k \in clients' \ {ev'.conn} :
                   conn'[k].state = "open" /\ conn'[k].room = conn'[ev'.conn].room}
           /\ \A x \in sent' : x.msg.room = conn'[ev'.conn].room /\ x.msg.type = ev'.type
     /\ ev'.kind = "resume"
        => /\ {x.to : x \in sent'} =
                {k \in clients \ {pending[1].conn} :
                   conn[k].state = "open" /\ conn[k].room = pending[1].room}
           /\ \A x \in sent' : x.msg = pending[1].msg]_vars

\* a keystroke delivered to another connection of the sender's session
C13_Witness ==
  /\ ev.kind = "frame" /\ ev.verdict = "ok" /\ ev.type = "keystroke"
  /\ \E x \in sent : x.to # ev.conn /\ conn[x.to].sessionId = conn[ev.conn].sessionId
                     /\ conn[ev.conn].sessionId # ""

\* C14: a close takes the connection out of the connection set in the same
\* step, and broadcasts nothing while another live connection carries the
\* same sessionId.
C14_LeaveOnlyForLast ==
  [][\A c \in Conns :
       (ev'.kind = "close" /\ ev'.conn = c)
       => /\ c \notin clients'
          /\ (conn[c].sessionId # ""
                /\ \E k \in clients' : conn[k].sessionId = conn[c].sessionId)
             => sent' = {}]_vars

C16_MalformedInert ==
  [][\A f \in RateFrames, g \in GeneratedIds :
       (f.type \notin MessageTypes /\ HandleMessage("c1", f, g))
       => /\ sent' = {}
          /\ messages' = messages
          /\ currentId' = currentId
          /\ pending' = pending
          /\ activeSessions' = activeSessions
          /\ usernameOwnership' = usernameOwnership
          /\ "c1" \in clients'
          /\ conn'["c1"].state = "open"
          /\ conn'["c1"].username = conn["c1"].username
          /\ conn'["c1"].room = conn["c1"].room
          /\ conn'["c1"].lastMessageTime = conn["c1"].lastMessageTime]_vars

\* a malformed frame on a connection that has typed before, a listener in its room
C16_Witness ==
  /\ ev.kind = "frame" /\ ev.verdict = "parse"
  /\ ev.conn \in clients
  /\ conn[ev.conn].username = "alice"
  /\ conn[ev.conn].lastMessageTime # 0
  /\ \E k \in clients \ {ev.conn} : conn[k].room = conn[ev.conn].room

\* C17: the broadcasts of one connection's admitted frames reach the fanout
\* in the order of admission: no frame of a connection is broadcast while
\* an earlier frame of that connection still waits for its broadcast.
C17_FanoutInOrder ==
  (ev.kind = "frame" /\ ev.verdict = "ok" /\ ev.type \in {"keystroke", "join", "leave"})
  => \A i \in 1..Len(pending) : pending[i].conn # ev.conn
\* a frame arriving while the connection's newMessage handler is suspended
C17_Witness ==
  /\ ev.kind = "frame"
  /\ ev.type = ""
  /\ ev.verdict = "rate"
  /\ \E i \in 1..Len(pending) : pending[i].conn = ev.conn

\* C18: every stored id is below the id counter, the counter never goes
\* down, and a message that enters the store gets the counter's value as its
\* id, which raises the counter by one, and the current time as timestamp;
\* so each id is above all ids given before, also after deletions.
C18_IdsIncrease ==
  [][/\ currentId' >= currentId
     /\ \A i \in 1..Len(messages') : messages'[i].id < currentId'
     /\ \A i \in 1..Len(messages') :
          (\A j \in 1..Len(messages) : messages[j] # messages'[i])
          => /\ messages'[i].id = currentId
             /\ currentId' = currentId + 1
             /\ messages'[i].timestamp = now
             /\ \A j \in 1..Len(messages) : messages[j].id < messages'[i].id]_vars

\* a message stored after the TTL sweep has deleted an older one
C18_Witness ==
  /\ ev.kind \in {"frame", "relay"}
  /\ messages # <<>>
  /\ messages[Len(messages)].id = currentId - 1
  /\ messages[Len(messages)].timestamp = now
  /\ Len(messages) < currentId - 1

\* C19: getRecentMessages(room, limit) returns min(limit, stored for the room)
\* messages, each a different stored message of that room, none older than a
\* stored message of the room it leaves out, in non-decreasing order of
\* timestamp; the history endpoint is this query with limit 100.
Limits == 0..(MaxKept + 1) \cup {HistoryLimit}

C19_RecentMessages ==
  \A r \in Rooms, limit \in Limits :
     LET res == GetRecentMessages(messages, r, limit)
         stored == {i \in 1..Len(messages) : messages[i].room = r}
         got == {i \in stored : \E k \in 1..Len(res) : res[k] = messages[i]}
     IN  /\ Len(res) = IF limit < Cardinality(stored) THEN limit ELSE Cardinality(stored)
         /\ Cardinality(got) = Len(res)
         /\ \A k \in 1..Len(res) : \E i \in stored : res[k] = messages[i]
         /\ \A k \in 1..(Len(res) - 1) : res[k].timestamp <= res[k + 1].timestamp
         /\ \A i \in stored \ got, k \in 1..Len(res) :
              messages[i].timestamp <= res[k].timestamp
         /\ limit = HistoryLimit => History(r) = res

\* three messages of one room, stored at different times: a limit of two cuts
C19_Witness ==
  \E r \in Rooms :
     /\ Cardinality({i \in 1..Len(messages) : messages[i].room = r}) >= 3
     /\ \E i, j \in 1..Len(messages) :
          /\ messages[i].room = r /\ messages[j].room = r
          /\ messages[i].timestamp < messages[j].timestamp
     /\ Len(GetRecentMessages(messages, r, 2)) = 2

\* C20: ingesting an item whose version is the one it was last ingested with
\* appends nothing and starts no broadcast, whatever was ingested in between.
C20_UnchangedNotRelayed ==
  [][\A item \in LedgerItems, r \in {"", "demo"} :
       (/\ PostRelay(item, r)
        /\ lastIngested[item.hnId] = Version(item))
       => /\ messages' = messages
          /\ currentId' = currentId
          /\ pending' = pending
          /\ sent' = {}]_vars

LedgerKeys(ledger) == {ledger[i][1] : i \in 1..Len(ledger)}

\* C21: the ledger never holds more than LedgerCap entries; an ingestion that
\* sets a new key in a full ledger removes exactly the entry inserted earliest
\* and keeps all others in order, any other ingestion removes none, and the
\* ingested item's entry stays.
C21_LedgerCapped ==
  [][\A item \in LedgerItems, r \in {"", "demo"} :
       (PostRelay(item, r) /\ ev'.verdict = "relayed")
       => LET old == lastRelayedVersion
              new == lastRelayedVersion'
              entry == <<item.hnId, Version(item)>>
              known == \E i \in 1..Len(old) : old[i][1] = item.hnId
          IN  /\ Len(new) <= LedgerCap
              /\ Cardinality(LedgerKeys(new)) = Len(new)
              /\ \E i \in 1..Len(new) : new[i] = entry
              /\ IF known
                 THEN /\ Len(new) = Len(old)
                      /\ \A i \in 1..Len(old) :
                           new[i] = IF old[i][1] = item.hnId THEN entry ELSE old[i]
                 ELSE IF Len(old) = LedgerCap
                 THEN /\ Len(new) = LedgerCap
                      /\ \A i \in 1..(LedgerCap - 1) : new[i] = old[i + 1]
                      /\ new[LedgerCap] = entry
                 ELSE new = Append(old, entry)]_vars

\* a full ledger took a new key: the oldest key is gone, the new one is last
C21_Witness ==
  /\ ev.kind = "relay" /\ ev.verdict = "relayed"
  /\ Len(lastRelayedVersion) = LedgerCap
  /\ 1 \notin LedgerKeys(lastRelayedVersion)
  /\ lastRelayedVersion[LedgerCap][1] = 2

\* C22: an accepted item whose final text has length L is played to each open
\* connection of the room as exactly L keystroke frames, one per non-empty
\* prefix of the final text, all sent before the terminal newMessage.  The
\* server takes no other step between accepting the item and the terminal
\* broadcast, so the frames of the job are those of these two steps.
C22_TypedBeforeFinal ==
  [][(pending # <<>> /\ pending[1].conn = "" /\ Resume)
       => LET final == pending[1].msg.content
              listeners == {c \in clients : /\ conn[c].state = "open"
                                            /\ conn[c].room = pending[1].room}
              strokes(c, frames) == {fr \in frames : /\ fr.to = c
                                                     /\ fr.msg.type = "keystroke"}
          IN  \A c \in listeners :
                /\ \E fr \in sent' : fr.to = c /\ fr.msg.type = "newMessage"
                /\ strokes(c, sent') = {}
                /\ {fr.msg.content : fr \in strokes(c, sent)} =
                     {SubSeq(final, 1, k) : k \in 1..Len(final)}]_vars

RelayPending == pending # <<>> /\ pending[1].conn = ""

\* C23: an accepted ingestion appends the final content once to the target
\* room's store; its continuation eventually runs, sends one newMessage frame
\* marked serverPrepared to every open connection of that room and to no one
\* else, and leaves nothing pending and one message of that ingestion among
\* the room's recent messages.
C23_RelayedOnce ==
  /\ [][\A item \in LedgerItems, r \in {"", "demo"} :
          (PostRelay(item, r) /\ ev'.verdict = "relayed")
          => LET target == IF r # "" THEN r ELSE HOCKER_RELAY_ROOM
             IN  /\ Len(messages') = Len(messages) + 1
                 /\ SubSeq(messages', 1, Len(messages)) = messages
                 /\ messages'[Len(messages')].room = target
                 /\ messages'[Len(messages')].content = MessageText(item)
                 /\ messages'[Len(messages')].id = currentId
                 /\ Len(pending') = 1 /\ pending'[1].conn = ""
                 /\ pending'[1].room = target
                 /\ pending'[1].msg.content = MessageText(item)
                 /\ sent' = {}]_vars
  /\ [][(RelayPending /\ Resume)
          => LET job == pending[1]
                 stored == messages[Len(messages)]
                 listeners == {c \in clients : /\ conn[c].state = "open"
                                               /\ conn[c].room = job.room}
                 recent == GetRecentMessages(messages', job.room, HistoryLimit)
             IN  /\ messages' = messages
                 /\ pending' = <<>>
                 /\ {fr.to : fr \in sent'} = listeners
                 /\ Cardinality(sent') = Cardinality(listeners)
                 /\ \A fr \in sent' : /\ fr.msg.type = "newMessage"
                                      /\ fr.msg.serverPrepared
                                      /\ fr.msg.content = stored.content
                                      /\ fr.msg.room = stored.room
                 /\ stored.room = job.room
                 /\ Cardinality({k \in 1..Len(recent) : recent[k].id = stored.id}) = 1
                 /\ Cardinality({k \in 1..Len(recent) : recent[k] = stored}) = 1]_vars
  /\ (RelayPending ~> (pending = <<>> /\ ev.kind = "resume" /\ ev.conn = ""))

\* an ingested item reached two listeners of its room, marked serverPrepared
C23_Witness ==
  /\ ev.kind = "resume" /\ ev.conn = "" /\ pending = <<>>
  /\ Cardinality(sent) = 2
  /\ \A fr \in sent : fr.msg.serverPrepared /\ fr.msg.type = "newMessage"
  /\ \E i \in 1..Len(messages) : \A fr \in sent : messages[i].content = fr.msg.content

GateTokens == {"", PushToken, "guess"}

InvalidPayload(item) == ~item.present \/ ~item.finite

DuplicatePayload(item) ==
  /\ ~InvalidPayload(item)
  /\ LedgerGet(lastRelayedVersion, item.hnId) = Version(item)

\* C24: a request past the token gate whose payload is invalid, or whose item
\* has the version the ledger holds for it, is answered with an error status
\* and neither appends to the store nor starts a broadcast.
C24_IngestionErrors ==
  [][\A token \in GateTokens, item \in GateItems, r \in {"", "demo"} :
       (/\ PostRelayRequest(token, item, r)
        /\ (HOCKER_PUSH_TOKEN = "" \/ token = HOCKER_PUSH_TOKEN)
        /\ (InvalidPayload(item) \/ DuplicatePayload(item)))
       => /\ RelayResponse(ev'.verdict).status >= 400
          /\ RelayResponse(ev'.verdict).error # ""
          /\ messages' = messages
          /\ currentId' = currentId
          /\ pending' = pending
          /\ sent' = {}]_vars

\* C25: with a push token configured, a request whose header token is absent
\* or different is answered 401 whatever its payload, and changes neither the
\* ledger nor the store nor anything pending or sent; every other request,
\* and every request when no token is configured, passes the gate.
C25_TokenGate ==
  [][\A token \in GateTokens, item \in GateItems, r \in {"", "demo"} :
       PostRelayRequest(token, item, r)
       => IF HOCKER_PUSH_TOKEN # "" /\ token # HOCKER_PUSH_TOKEN
          THEN /\ RelayResponse(ev'.verdict).status = 401
               /\ lastRelayedVersion' = lastRelayedVersion
               /\ messages' = messages
               /\ currentId' = currentId
               /\ pending' = pending
               /\ sent' = {}
          ELSE /\ RelayResponse(ev'.verdict).status # 401
               /\ InvalidPayload(item) <=> RelayResponse(ev'.verdict).status = 400]_vars

\* a request was turned away at the gate of a server that has relayed before
C25_Witness ==
  /\ ev.kind = "relay" /\ ev.verdict = "401"
  /\ HOCKER_PUSH_TOKEN = PushToken
  /\ lastRelayedVersion # <<>>
  /\ messages # <<>>

RetentionWindows == {0, 1, 30, 31}

\* what is left of store `old` is exactly its messages not older than m minutes
KeepsNotOlder(old, new, m) ==
  /\ \A i \in 1..Len(old) :
       (old[i].timestamp < now - m * 60 * 1000)
         <=> ~\E k \in 1..Len(new) : new[k] = old[i]
  /\ \A k \in 1..Len(new) : \E i \in 1..Len(old) : new[k] = old[i]
  /\ Cardinality({new[k].id : k \in 1..Len(new)}) = Len(new)

\* C26: deleteOldMessages(m) removes exactly the messages stamped earlier than
\* now minus m minutes and leaves every other message as it was; the periodic
\* sweep does so with m = 30 and leaves the id counter alone.
C26_DeletesOld ==
  /\ [](\A m \in RetentionWindows :
          KeepsNotOlder(messages, DeleteOldMessages(messages, m, now), m))
  /\ [][ev'.kind = "storeSweep"
          => /\ KeepsNotOlder(messages, messages', 30)
             /\ currentId' = currentId]_vars

\* a sweep removed a message and kept one stamped exactly at the cutoff
C26_Witness ==
  /\ ev.kind = "storeSweep"
  /\ currentId - 1 > Len(messages)
  /\ \E i \in 1..Len(messages) : messages[i].timestamp = now - 30 * 60 * 1000

OwnedKeys(ownership) == {e[1] : e \in ownership}

C28_BackoffGrows ==
  /\ hook.socket = "closed" => hook.timer # 0
  /\ \A k \in 1..(Len(hook.delays) - 1) : hook.delays[k + 1] > hook.delays[k]

\* C29: a frame whose content the heuristics reject, a join included, leaves
\* the session records, the ownership entries and the connection's sessionId
\* and browserFingerprint as they were.
C29_GuardBeforeRegistry ==
  [][\A c \in Conns, f \in ContentFrames, g \in GeneratedIds :
       (HandleMessage(c, f, g) /\ ContentRejected(f.content))
       => /\ activeSessions' = activeSessions
          /\ usernameOwnership' = usernameOwnership
          /\ conn'[c].sessionId = conn[c].sessionId
          /\ conn'[c].browserFingerprint = conn[c].browserFingerprint]_vars

\* C30: a frame that a gate turns away leaves the connection's
\* lastMessageTime as it was and its messageCount at most one higher; one
\* that arrives within minInterval of the last accepted frame leaves
\* messageCount and lastResetTime as they were, too.
C30_RejectedFrameCounters ==
  [][\A f \in GateFrames, g \in GeneratedIds :
       (HandleMessage("c1", f, g) /\ ev'.verdict # "ok")
       => LET w == conn["c1"]
              w2 == conn'["c1"]
          IN  /\ ev'.verdict \in {"rate", "parse", "denied", "content"}
              /\ w2.lastMessageTime = w.lastMessageTime
              /\ w2.messageCount <= w.messageCount + 1
              /\ (w.lastMessageTime # 0 /\ now - w.lastMessageTime < minInterval)
                   => /\ ev'.verdict = "rate"
                      /\ w2.messageCount = w.messageCount
                      /\ w2.lastResetTime = w.lastResetTime]_vars

\* a join was turned away for its name, long enough after the last accepted
\* frame for the rate gate to have counted it
C30_Witness ==
  /\ ev.kind = "frame" /\ ev.verdict = "denied"
  /\ conn["c1"].lastMessageTime # 0
  /\ now - conn["c1"].lastMessageTime >= minInterval
  /\ conn["c1"].messageCount >= 2

Stored(store, msg) ==
  \E i \in 1..Len(store) : /\ store[i].username = msg.username
                           /\ store[i].content = msg.content
                           /\ store[i].room = msg.room

RaceSession(c) == RaceJoin(c).sessionId

BothJoined ==
  \A c \in Conns : conn[c].state = "open" /\ conn[c].messageCount = 1

\* C32: of two joins for the same unclaimed name from different sessions and
\* fingerprints, whichever is handled first is validated and claims the name
\* in one step and is broadcast as a join; the other is answered with a
\* nameError on its own connection and changes no owner.  Once both are
\* handled, exactly one connection carries its session and that session owns
\* the name.
C32_JoinRace ==
  /\ [](BothJoined
          => \E c \in Conns :
                /\ conn[c].sessionId = RaceSession(c)
                /\ Owner("global", "alice") = RaceSession(c)
                /\ \A d \in Conns \ {c} : conn[d].sessionId = "")
  /\ [][\A c \in Conns, g \in GeneratedIds :
          HandleMessage(c, RaceJoin(c), g)
          => IF Owner("global", "alice") \in {"", RaceSession(c)}
             THEN /\ ev'.verdict = "ok"
                  /\ usernameOwnership' = {<<"global:alice", RaceSession(c)>>}
                  /\ conn'[c].sessionId = RaceSession(c)
                  /\ {fr.to : fr \in sent'} =
                       {k \in clients \ {c} : /\ conn[k].state = "open"
                                              /\ conn[k].room = "global"}
                  /\ \A fr \in sent' : /\ fr.msg.type = "join"
                                       /\ fr.msg.username = "alice"
             ELSE /\ ev'.verdict = "denied"
                  /\ usernameOwnership' = usernameOwnership
                  /\ activeSessions' = activeSessions
                  /\ conn'[c].sessionId = ""
                  /\ Cardinality(sent') = 1
                  /\ \A fr \in sent' : /\ fr.to = c
                                       /\ fr.msg.type = "nameError"]_vars

\* both have joined: the later one has just been answered with a nameError
\* while the owner was listening in the room
C32_Witness ==
  /\ BothJoined
  /\ ev.kind = "frame" /\ ev.type = "join" /\ ev.verdict = "denied"
  /\ \E fr \in sent : fr.to = ev.conn /\ fr.msg.type = "nameError"
  /\ \E c \in Conns \ {ev.conn} :
        conn[c].room = "global" /\ Owner("global", "alice") = conn[c].sessionId

\* C33: each session's connectionCount is non-negative and is the number of
\* connections not yet closed that carry the session's id.
C33_CountsConnections ==
  \A s \in DOMAIN activeSessions :
     /\ activeSessions[s].connectionCount >= 0
     /\ activeSessions[s].connectionCount =
          Cardinality({c \in Conns : /\ conn[c].state \in {"open", "closing"}
                                     /\ conn[c].sessionId = s})

\* C34: an open connection keeps the room it connected with, whatever its
\* frames carry, and every broadcast frame it gets is for that room.
C34_RoomFixedAtConnect ==
  /\ [][\A c \in Conns :
          (conn[c].state = "open" /\ conn'[c].state = "open")
          => conn'[c].room = conn[c].room]_vars
  /\ [](\A fr \in sent : fr.to # fr.from => fr.msg.room = conn[fr.to].room)

C36_PlaceholderHandoff ==
  [][\A c \in Conns, f \in PlaceholderJoins, g \in FreshIds :
       HandleMessage(c, f, g)
       => LET sid == IF f.sessionId # "" THEN f.sessionId ELSE g
              owner == Owner("global", "alice")
              live == owner # "" /\ owner \in DOMAIN activeSessions /\ owner # sid
          IN  /\ (f.browserFingerprint = "" /\ live)
                 => IF activeSessions[owner].browserFingerprint = "unknown"
                    THEN /\ ev'.verdict = "ok"
                         /\ usernameOwnership' = {<<"global:alice", sid>>}
                    ELSE /\ ev'.verdict = "denied"
                         /\ usernameOwnership' = usernameOwnership
              /\ (f.browserFingerprint = "" /\ ev'.verdict = "ok")
                 => /\ activeSessions'[sid].browserFingerprint = "unknown"
                    /\ conn'[c].browserFingerprint = "unknown"
              /\ (f.sessionId = "" /\ ev'.verdict = "ok")
                 => /\ conn'[c].sessionId = g
                    /\ g \notin DOMAIN activeSessions
                    /\ g \in DOMAIN activeSessions'
                    /\ activeSessions'[g].connectionCount = 1]_vars

\* a join without session id and fingerprint has just taken the name over
\* from a live session recorded under the placeholder
C36_Witness ==
  /\ ev.kind = "frame" /\ ev.type = "join" /\ ev.verdict = "ok"
  /\ conn[ev.conn].sessionId \in FreshIds
  /\ conn[ev.conn].browserFingerprint = "unknown"
  /\ Owner("global", "alice") = conn[ev.conn].sessionId
  /\ \E o \in DOMAIN activeSessions \ {conn[ev.conn].sessionId} :
       /\ activeSessions[o].browserFingerprint = "unknown"
       /\ activeSessions[o].username = "alice"
       /\ activeSessions[o].room = "global"

InRecent(store, msg) ==
  LET list == GetRecentMessages(store, msg.room, HistoryLimit)
  IN  \E i \in 1..Len(list) : /\ list[i].username = msg.username
                               /\ list[i].content = msg.content
                               /\ list[i].room = msg.room

InHistory(msg) == InRecent(messages, msg)

\* C37: the step that appends a message to the store puts nothing on the wire
\* and leaves the broadcast to the handler's continuation; the continuation
\* of a handler that stored a newMessage, a client's or a relayed item's,
\* finds the message in the room's history and leaves the store alone, so
\* every newMessage on the wire is in the history of its room.
C37_StoredBeforeBroadcast ==
  /\ [][Len(messages') > Len(messages)
          => /\ sent' = {}
             /\ pending' # <<>>
             /\ InRecent(messages', pending'[Len(pending')].msg)]_vars
  /\ [][ev'.kind = "resume"
          => /\ InHistory(pending[1].msg)
             /\ messages' = messages
             /\ \A fr \in sent' : fr.msg = pending[1].msg]_vars
  /\ [](\A fr \in sent : fr.msg.type = "newMessage" => InHistory(fr.msg))

\* a client's newMessage reaches a listener while the store holds it beside
\* a relayed item
C37_Witness ==
  /\ ev.kind = "resume"
  /\ \E fr \in sent : /\ fr.from \in Conns
                       /\ fr.msg.type = "newMessage"
                       /\ InHistory(fr.msg)
  /\ \E i \in 1..Len(messages) : messages[i].username = "HN:pg"

\* C38: the close of a connection whose leave frame has just been admitted
\* and broadcast puts no further leave on the wire.
C38_SingleLeave ==
  [][(/\ ev.kind = "frame" /\ ev.type = "leave" /\ ev.verdict = "ok"
      /\ sent # {}
      /\ ev'.kind = "close" /\ ev'.conn = ev.conn)
     => \A fr \in sent' : fr.msg.type # "leave"]_vars

\* C39: a request that carries an item whose version the ledger holds under
\* the item's id appends nothing, queues and sends no broadcast and leaves
\* the ledger as it is, whichever room it names, and is acknowledged with
\* status 200 and the room it named; the ledger's keys are item ids.
C39_DedupAcrossRooms ==
  /\ [][\A token \in GateTokens, item \in GateItems, r \in {"", "demo"} :
          (/\ PostRelayRequest(token, item, r)
           /\ ~TokenRejected(HOCKER_PUSH_TOKEN, token)
           /\ item.present /\ item.finite
           /\ LedgerGet(lastRelayedVersion, item.hnId) = Version(item)
           /\ \E i \in 1..Len(messages) :
                 /\ messages[i].username = RelayMessage(item, r).username
                 /\ messages[i].content = MessageText(item)
                 /\ messages[i].room # (IF r # "" THEN r ELSE HOCKER_RELAY_ROOM))
          => /\ messages' = messages
             /\ pending' = <<>>
             /\ sent' = {}
             /\ lastRelayedVersion' = lastRelayedVersion
             /\ ev'.verdict = "duplicate"
             /\ RelayResponse(ev'.verdict).status = 200
             /\ RelayAck(item.hnId, ev'.room) =
                  [ok |-> TRUE, hnId |-> item.hnId,
                   room |-> IF r # "" THEN r ELSE HOCKER_RELAY_ROOM]]_vars
  /\ [](LedgerKeys(lastRelayedVersion) \subseteq TrackedIds)

\* an item stored for room global has been pushed again for room demo and
\* acknowledged: the store holds nothing for demo
C39_Witness ==
  /\ ev.kind = "relay" /\ ev.verdict = "duplicate" /\ ev.room = "demo"
  /\ messages # <<>>
  /\ \A i \in 1..Len(messages) : messages[i].room = "global"
  /\ pending = <<>>

\* C40: once the cleanup has run no reconnect is set and no socket of the
\* hook is connecting or open.
C40_TeardownStopsReconnect ==
  ~hook.mounted => /\ hook.timer = 0
                   /\ hook.socket \in {"closing", "closed"}

====
